---- MODULE Spec2Model ----
(***************************************************************************)
(* Model of the ict_trader core: the order book (StateStore.orders), the   *)
(* paper broker, the order manager, the risk sizer, the supervisor and the *)
(* orchestrator's bar handlers (TradingAgent.on_execution_close and        *)
(* TradingAgent.on_bias_close).                                            *)
(*                                                                         *)
(* Units.  Prices are integers counted in ticks of 0.5 price units, so the *)
(* literals 0.5 and 1.0 of ExecutionEngine._derive_orders are 1 and 2      *)
(* ticks.  Cash is counted in the matching unit (0.5 x value_per_point),   *)
(* so the starting equity 100000.0 is 200000.  Timestamps are minutes.     *)
(* Optional values are sequences: None is <<>> and a present value v is    *)
(* <<v>>.  An R-multiple is the exact fraction [num, den].                 *)
(*                                                                         *)
(* Configuration.  The RiskConfig instance modelled keeps the default      *)
(* risk_per_trade_pct (2%), max_concurrent_positions, rr_target and        *)
(* expiry_minutes, and sets max_daily_drawdown_pct to 2%,                  *)
(* max_weekly_drawdown_pct to 4%, max_trades_per_day to 2 and              *)
(* time_stop_bars to 2 (defaults 6%, 10%, 4 and 20), so that one stopped   *)
(* trade reaches the daily limit and the limits are met within a few bars. *)
(* TradingConfig.news_events holds one event, at 05:00 of the ninth day    *)
(* (the end of the first session), a week after the candles of the tape.   *)
(*                                                                         *)
(* Spec replays a tape of 1m candles through the aggregator and the        *)
(* orchestrator's handlers, one action per dispatched candle.  The         *)
(* variables bar, events, writes and gate record what the last handler     *)
(* saw and did (its candle, the OrderEvents it processed, its writes to    *)
(* the order book and the account in the order they were made, the result  *)
(* of can_trade); trades is the logger's orders table and halts the halt   *)
(* actions the supervisor logged.                                          *)
(* SpecCalc applies single functions and handlers (sizing, signal to exit, *)
(* StructureEngine.update on a dealing range and the last three candles,   *)
(* ExecutionEngine.evaluate on a candle buffer of a given length,          *)
(* _process_events on one event, on_execution_close on one waiting order   *)
(* and on a book of orders placed earlier the same day, can_trade on one   *)
(* supervisor state) to inputs drawn by its initial state; calc holds the  *)
(* input and the result.                                                   *)
(* SpecAgg builds a MultiTimeframeAggregator and feeds it a stream of base *)
(* candles; agg holds the aggregator, what its last call returned and the  *)
(* candles handed on since the stream began.                               *)
(* SpecLife follows one placed order through a continuing stream of 1m     *)
(* candles, with one bias flip against it; calc holds the order's store    *)
(* and the time of the last candle, nbars counts the candles.              *)
(***************************************************************************)
EXTENDS Integers, Sequences, FiniteSets, TLC

\* ---------------------------------------------------------------- bounds
MaxPrice == 6
MaxOrders == 2
MaxBars == 6

\* ------------------------------------------------- configuration (config.py)
risk_per_trade_pct == 2
max_daily_drawdown_pct == 2
max_weekly_drawdown_pct == 4
PctDen == 100
max_trades_per_day == 2
max_concurrent_positions == 1
rr_target == 2
time_stop_bars == 2
expiry_minutes == 30
value_per_point == 1
StartingEquity == 200000
HalfPoint == 1
OnePoint == 2
MinutesPerDay == 1440

None == <<>>
Some(v) == <<v>>
Val(o) == o[1]
\* v named once and used in F: a local variable of the code
Bind(v, F(_)) == F(v)

Max(a, b) == IF a >= b THEN a ELSE b
Min(a, b) == IF a <= b THEN a ELSE b
Abs(a) == IF a >= 0 THEN a ELSE -a
\* Python int(): truncation toward zero (divisor positive)
TruncDiv(a, b) == IF a >= 0 THEN a \div b ELSE -((-a) \div b)

LONG == "long"
SHORT == "short"
WAITING == "waiting"
FILLED == "filled"
MANAGING == "managing"
EXIT == "exit"
CANCELLED == "cancelled"
TradeState == {WAITING, FILLED, MANAGING, EXIT, CANCELLED}

\* ------------------------------------------------------------ input sets
\* price levels of the candles: whole price units (even tick counts)
Prices == {p \in 0..MaxPrice : p % OnePoint = 0}
DayOf(ts) == ts \div MinutesPerDay
MinuteOfDay(ts) == ts % MinutesPerDay
IsoWeek(ts) == DayOf(ts) \div 7
FloorTime(ts, minutes) == ts - (ts % minutes)

\* ict_utils.py
TIMEFRAME_MINUTES ==
  ("1m" :> 1) @@ ("3m" :> 3) @@ ("5m" :> 5) @@ ("15m" :> 15) @@ ("30m" :> 30) @@ ("45m" :> 45)
  @@ ("1h" :> 60) @@ ("2h" :> 120) @@ ("3h" :> 180) @@ ("4h" :> 240) @@ ("6h" :> 360)
  @@ ("8h" :> 480) @@ ("12h" :> 720) @@ ("1d" :> 1440)

\* None: ValueError("Unsupported timeframe")
timeframe_to_minutes(timeframe) ==
  IF timeframe \in DOMAIN TIMEFRAME_MINUTES THEN Some(TIMEFRAME_MINUTES[timeframe]) ELSE None

floor_time(timestamp, timeframe) == FloorTime(timestamp, Val(timeframe_to_minutes(timeframe)))

\* DEFAULT_SESSIONS, as minutes of the day
Sessions == {[start |-> 120, end |-> 300], [start |-> 600, end |-> 660], [start |-> 840, end |-> 900]}
\* config.news_events: one event, at 05:00 of the ninth day (the end of the
\* first session), a week after the candles of the replay
NewsEvents == {8 * MinutesPerDay + 300}
news_halt_minutes == 5

VARIABLES orders, account, halted, halt_reason, last_bias_direction, bias,
          trades, halts, clock, nbars, pending, ended, bar, events, writes, gate, calc, agg

vars == <<orders, account, halted, halt_reason, last_bias_direction, bias,
          trades, halts, clock, nbars, pending, ended, bar, events, writes, gate, calc, agg>>

\* ------------------------------------------------------------------ risk.py
\* AccountState.__post_init__
NewAccount(equity) ==
  [equity |-> equity, starting_equity |-> equity, daily_pnl |-> 0, weekly_pnl |-> 0,
   closed_pnl |-> 0, trades_today |-> 0, max_equity |-> equity, min_equity |-> equity,
   max_drawdown |-> 0, last_daily_reset |-> None, last_weekly_reset |-> None]

reset_daily(acc, when) ==
  [acc EXCEPT !.daily_pnl = 0, !.trades_today = 0, !.last_daily_reset = Some(when)]

\* reset_weekly zeroing the daily figures as well
reset_weekly_AlsoDaily(acc, when) ==
  [acc EXCEPT !.weekly_pnl = 0, !.daily_pnl = 0, !.trades_today = 0, !.last_weekly_reset = Some(when)]

reset_weekly(acc, when) ==
  [acc EXCEPT !.weekly_pnl = 0, !.last_weekly_reset = Some(when)]

apply_trade_result(acc, pnl_cash) ==
  LET eq == acc.equity + pnl_cash
      mx == Max(acc.max_equity, eq)
  IN [acc EXCEPT !.equity = eq,
                 !.closed_pnl = @ + pnl_cash,
                 !.daily_pnl = @ + pnl_cash,
                 !.weekly_pnl = @ + pnl_cash,
                 !.max_equity = mx,
                 !.min_equity = Min(@, eq),
                 !.max_drawdown = Max(@, mx - eq),
                 !.trades_today = @ + 1]

\* position_size with a minimum size of one unit in place of max(0, ...)
position_size_AtLeastOne(equity, entry, stop) ==
  LET stop_distance == Abs(entry - stop) IN
  IF stop_distance <= 0 THEN 0
  ELSE Max(1, TruncDiv(equity * risk_per_trade_pct, PctDen * stop_distance * value_per_point))

\* risk_cash / (stop_distance * value_per_point), truncated, floored at 0
position_size(equity, entry, stop) ==
  LET stop_distance == Abs(entry - stop) IN
  IF stop_distance <= 0 THEN 0
  ELSE Max(0, TruncDiv(equity * risk_per_trade_pct, PctDen * stop_distance * value_per_point))

\* The order id is the symbol plus `now` formatted to the second: the
\* timestamp identifies the order.
build_order_plan(signal, acc, now) ==
  Bind(position_size(acc.equity, signal.entry, signal.stop), LAMBDA size :
    IF size <= 0 THEN None
    ELSE Some([order_id |-> now, direction |-> signal.direction,
               entry |-> signal.entry, stop |-> signal.stop, target |-> signal.target,
               size |-> size, created_at |-> now, expires_at |-> now + expiry_minutes,
               state |-> WAITING, filled_price |-> None,
               exit_price |-> None, exit_reason |-> None, bars_in_trade |-> None]))

\* ----------------------------------------------------------- state_store.py
\* Position of an order id in the book (a dict in insertion order), 0 if absent
IndexOf(os, id) ==
  IF \E i \in 1..Len(os) : os[i].order_id = id
  THEN CHOOSE i \in 1..Len(os) : os[i].order_id = id
  ELSE 0

\* StateStore.register_order: self.orders[plan.order_id] = plan
register_order(st, plan) ==
  Bind(IndexOf(st.orders, plan.order_id), LAMBDA i :
    IF i = 0
    THEN [st EXCEPT !.orders = Append(@, plan),
                    !.writes = Append(@, [order_id |-> plan.order_id, from |-> "absent", to |-> plan.state])]
    ELSE [st EXCEPT !.orders[i] = plan,
                    !.writes = Append(@, [order_id |-> plan.order_id, from |-> st.orders[i].state, to |-> plan.state])])

\* StateStore.update_order_state (the filled_at stamp, which nothing reads, is
\* left out, and with it the `when` argument)
update_order_state(st, id, state, reason, filled_price, exit_price) ==
  Bind(IndexOf(st.orders, id), LAMBDA i :
    IF i = 0 THEN st
    ELSE
      Bind([st.orders[i] EXCEPT !.state = state], LAMBDA o1 :
      Bind(IF filled_price # None THEN [o1 EXCEPT !.filled_price = filled_price] ELSE o1, LAMBDA o3 :
      Bind(IF state \in {EXIT, CANCELLED} THEN [o3 EXCEPT !.exit_reason = reason] ELSE o3, LAMBDA o4 :
      Bind(IF exit_price # None THEN [o4 EXCEPT !.exit_price = exit_price] ELSE o4, LAMBDA o5 :
        [st EXCEPT !.orders[i] = o5,
                   !.writes = Append(@, [order_id |-> id, from |-> st.orders[i].state, to |-> state])])))))

\* record_event_metadata(order_id, {"bars_in_trade": str(bars)})
record_bars(st, id, bars) ==
  LET i == IndexOf(st.orders, id) IN
  IF i = 0 THEN st ELSE [st EXCEPT !.orders[i].bars_in_trade = Some(bars)]

IsActive(o) == o.state \notin {EXIT, CANCELLED}

\* ---------------------------------------------------------- trade_logger.py
\* TradeLogger.log_order_event on the orders table: the row of the order is
\* replaced (status and pnl reset), then status := action and pnl := the
\* event's pnl.
log_order_event(tbl, id, action, pnl) ==
  [x \in (DOMAIN tbl) \cup {id} |->
     IF x = id THEN [status |-> action, pnl |-> pnl] ELSE tbl[x]]

RECURSIVE SumPnl(_, _)
SumPnl(tbl, ids) ==
  IF ids = {} THEN 0
  ELSE LET x == CHOOSE y \in ids : TRUE
       IN (IF tbl[x].pnl = None THEN 0 ELSE Val(tbl[x].pnl)) + SumPnl(tbl, ids \ {x})

\* TradeLogger.summarize_trades (win_rate is winners / closed_trades)
summarize_trades(tbl) ==
  LET rows == {x \in DOMAIN tbl : tbl[x].status \in {"TP_HIT", "SL_HIT", "TIME_STOP"}} IN
  [closed_trades |-> Cardinality(rows),
   total_pnl |-> SumPnl(tbl, rows),
   winners |-> Cardinality({x \in rows : tbl[x].pnl # None /\ Val(tbl[x].pnl) > 0})]

\* ---------------------------------------------------------- paper_broker.py
Event(id, now, type, price, pnl, pnl_r, reason) ==
  [order_id |-> id, timestamp |-> now, event_type |-> type, price |-> price,
   pnl |-> pnl, pnl_r |-> pnl_r, reason |-> reason]

place_order(plan, now) == Event(plan.order_id, now, "PLACED", Some(plan.entry), None, None, None)

\* None when the order is unknown or already CANCELLED / EXIT
cancel_order(os, id, now, reason) ==
  LET i == IndexOf(os, id) IN
  IF i = 0 \/ os[i].state \in {CANCELLED, EXIT} THEN None
  ELSE Some(Event(id, now, "CANCELLED", None, None, None, Some(reason)))

stop_distance(o) == Abs(o.entry - o.stop)

\* _compute_pnl without the direction multiplier
_compute_pnl_Unsigned(o, entry_price, exit_price) ==
  LET cash == (exit_price - entry_price) * o.size * value_per_point
      risk_cash == stop_distance(o) * o.size * value_per_point
  IN [cash |-> cash,
      r |-> IF risk_cash # 0 THEN [num |-> cash, den |-> risk_cash] ELSE [num |-> 0, den |-> 1]]

_compute_pnl(o, entry_price, exit_price) ==
  LET direction == IF o.direction = LONG THEN 1 ELSE -1
      move == (exit_price - entry_price) * direction
      cash == move * o.size * value_per_point
      risk_cash == stop_distance(o) * o.size * value_per_point
  IN [cash |-> cash,
      r |-> IF risk_cash # 0 THEN [num |-> cash, den |-> risk_cash] ELSE [num |-> 0, den |-> 1]]

close_order(o, now, type, exit_price, entry_price, reason) ==
  LET p == _compute_pnl(o, entry_price, exit_price)
  IN Event(o.order_id, now, type, Some(exit_price), Some(p.cash), Some(p.r), Some(reason))

_crossed_entry(o, c) == c.low <= o.entry /\ o.entry <= c.high

_fill_order(o, now) == Event(o.order_id, now, "FILLED", Some(o.entry), None, None, None)

\* an expiry that only restates the placement, so the order keeps waiting
_expire_order_Placed(o, now) == Event(o.order_id, now, "PLACED", Some(o.entry), None, None, None)

_expire_order(o, now) == Event(o.order_id, now, "EXPIRED", None, None, None, Some("expiry"))

\* order.filled_price or order.entry
FillPrice(o) == IF o.filled_price = None THEN o.entry ELSE Val(o.filled_price)

\* _check_exit with the target test in front of the stop test
_check_exit_TargetFirst(o, c) ==
  IF o.direction = LONG
  THEN IF c.high >= o.target
       THEN Some(close_order(o, c.timestamp, "TP_HIT", o.target, FillPrice(o), "tp_hit"))
       ELSE IF c.low <= o.stop
            THEN Some(close_order(o, c.timestamp, "SL_HIT", o.stop, FillPrice(o), "sl_hit"))
            ELSE None
  ELSE IF c.low <= o.target
       THEN Some(close_order(o, c.timestamp, "TP_HIT", o.target, FillPrice(o), "tp_hit"))
       ELSE IF c.high >= o.stop
            THEN Some(close_order(o, c.timestamp, "SL_HIT", o.stop, FillPrice(o), "sl_hit"))
            ELSE None

_check_exit(o, c) ==
  IF o.direction = LONG
  THEN IF c.low <= o.stop
       THEN Some(close_order(o, c.timestamp, "SL_HIT", o.stop, FillPrice(o), "sl_hit"))
       ELSE IF c.high >= o.target
            THEN Some(close_order(o, c.timestamp, "TP_HIT", o.target, FillPrice(o), "tp_hit"))
            ELSE None
  ELSE IF c.high >= o.stop
       THEN Some(close_order(o, c.timestamp, "SL_HIT", o.stop, FillPrice(o), "sl_hit"))
       ELSE IF c.low <= o.target
            THEN Some(close_order(o, c.timestamp, "TP_HIT", o.target, FillPrice(o), "tp_hit"))
            ELSE None

\* process_candle without the state test in front of the exit check: a WAITING
\* order that neither expires nor fills is checked against its stop and target
CandleEvent_ExitUnguarded(o, c) ==
  IF o.state = WAITING /\ c.timestamp >= o.expires_at THEN Some(_expire_order(o, c.timestamp))
  ELSE IF o.state = WAITING /\ _crossed_entry(o, c) THEN Some(_fill_order(o, c.timestamp))
  ELSE _check_exit(o, c)

\* process_candle with the entry test ahead of the expiry test
CandleEvent_FillFirst(o, c) ==
  IF o.state = WAITING
  THEN IF _crossed_entry(o, c) THEN Some(_fill_order(o, c.timestamp))
       ELSE IF c.timestamp >= o.expires_at THEN Some(_expire_order(o, c.timestamp))
            ELSE None
  ELSE IF o.state \in {MANAGING, FILLED} THEN _check_exit(o, c)
       ELSE None

\* The event process_candle produces for one order, None if none
CandleEvent(o, c) ==
  IF o.state = WAITING
  THEN IF c.timestamp >= o.expires_at THEN Some(_expire_order(o, c.timestamp))
       ELSE IF _crossed_entry(o, c) THEN Some(_fill_order(o, c.timestamp))
            ELSE None
  ELSE IF o.state \in {MANAGING, FILLED} THEN _check_exit(o, c)
       ELSE None

RECURSIVE process_candle(_, _, _)
process_candle(os, c, i) ==
  IF i > Len(os) THEN <<>>
  ELSE (IF IsActive(os[i]) THEN CandleEvent(os[i], c) ELSE None) \o process_candle(os, c, i + 1)

RECURSIVE LogEvents(_, _)
LogEvents(tbl, evs) ==
  IF evs = <<>> THEN tbl
  ELSE LogEvents(log_order_event(tbl, Head(evs).order_id, Head(evs).event_type, Head(evs).pnl), Tail(evs))

\* _fill_order writes bars_in_trade = "0" on the order when it emits the event
RECURSIVE MarkFills(_, _)
MarkFills(st, evs) ==
  IF evs = <<>> THEN st
  ELSE MarkFills(IF Head(evs).event_type = "FILLED" THEN record_bars(st, Head(evs).order_id, 0) ELSE st,
                 Tail(evs))

\* --------------------------------------------------------- order_manager.py
\* handle_event without the lookup of the order: the event's pnl is handed
\* back whether or not the book holds the order
handle_event_Unchecked(st, e) ==
  IF e.event_type \in {"TP_HIT", "SL_HIT", "TIME_STOP"}
  THEN [st |-> update_order_state(st, e.order_id, EXIT, e.reason, None, e.price),
        found |-> TRUE, pnl |-> e.pnl]
  ELSE IF e.event_type \in {"EXPIRED", "CANCELLED"}
  THEN [st |-> update_order_state(st, e.order_id, CANCELLED, e.reason, None, None),
        found |-> TRUE, pnl |-> e.pnl]
  ELSE [st |-> st, found |-> TRUE, pnl |-> None]

\* OrderManager.handle_event: the new book and the pnl handed back
\* (found = FALSE is the `return None, None` of an unknown order id)
handle_event(st, e) ==
  IF IndexOf(st.orders, e.order_id) = 0 THEN [st |-> st, found |-> FALSE, pnl |-> None]
  ELSE IF e.event_type = "PLACED"
  THEN [st |-> update_order_state(st, e.order_id, WAITING, None, None, None),
        found |-> TRUE, pnl |-> None]
  ELSE IF e.event_type = "FILLED"
  THEN [st |-> record_bars(update_order_state(st, e.order_id, FILLED, None, e.price, None),
                           e.order_id, 0),
        found |-> TRUE, pnl |-> None]
  ELSE IF e.event_type \in {"TP_HIT", "SL_HIT", "TIME_STOP"}
  THEN [st |-> update_order_state(st, e.order_id, EXIT, e.reason, None, e.price),
        found |-> TRUE, pnl |-> e.pnl]
  ELSE IF e.event_type \in {"EXPIRED", "CANCELLED"}
  THEN [st |-> update_order_state(st, e.order_id, CANCELLED, e.reason, None, None),
        found |-> TRUE, pnl |-> e.pnl]
  ELSE [st |-> st, found |-> TRUE, pnl |-> None]

\* bars_in_trade read with int(plan.metadata.get("bars_in_trade", "0"))
BarsOf(o) == IF o.bars_in_trade = None THEN 0 ELSE Val(o.bars_in_trade)

\* enforce_time_stop closing an order one bar after the configured count
RECURSIVE enforce_time_stop_Late(_, _, _)
enforce_time_stop_Late(r, c, i) ==
  IF c.timeframe # "1m" THEN r
  ELSE IF i > Len(r.st.orders) THEN r
  ELSE IF r.st.orders[i].state \notin {FILLED, MANAGING} THEN enforce_time_stop_Late(r, c, i + 1)
  ELSE
    Bind(r.st.orders[i], LAMBDA o :
    Bind(BarsOf(o) + 1, LAMBDA bars :
    Bind(record_bars(r.st, o.order_id, bars), LAMBDA s1 :
    Bind(IF o.state = FILLED
         THEN update_order_state(s1, o.order_id, MANAGING, None, o.filled_price, None)
         ELSE s1, LAMBDA s2 :
    Bind(s2.orders[i], LAMBDA plan :
    Bind(IF bars > time_stop_bars
         THEN <<close_order(plan, c.timestamp, "TIME_STOP", c.close, FillPrice(plan), "time_stop")>>
         ELSE <<>>, LAMBDA evs :
      enforce_time_stop_Late([st |-> s2, evs |-> r.evs \o evs], c, i + 1)))))))

\* OrderManager.enforce_time_stop, orders i..Len in book order; r carries the
\* store and the events collected so far
RECURSIVE enforce_time_stop(_, _, _)
enforce_time_stop(r, c, i) ==
  IF c.timeframe # "1m" THEN r
  ELSE IF i > Len(r.st.orders) THEN r
  ELSE IF r.st.orders[i].state \notin {FILLED, MANAGING} THEN enforce_time_stop(r, c, i + 1)
  ELSE
    Bind(r.st.orders[i], LAMBDA o :
    Bind(BarsOf(o) + 1, LAMBDA bars :
    Bind(record_bars(r.st, o.order_id, bars), LAMBDA s1 :
    Bind(IF o.state = FILLED
         THEN update_order_state(s1, o.order_id, MANAGING, None, o.filled_price, None)
         ELSE s1, LAMBDA s2 :
    Bind(s2.orders[i], LAMBDA plan :
    Bind(IF bars >= time_stop_bars
         THEN <<close_order(plan, c.timestamp, "TIME_STOP", c.close, FillPrice(plan), "time_stop")>>
         ELSE <<>>, LAMBDA evs :
      enforce_time_stop([st |-> s2, evs |-> r.evs \o evs], c, i + 1)))))))

\* ------------------------------------------------------------ supervisor.py
DailyHalt == "Daily drawdown limit reached"
WeeklyHalt == "Weekly drawdown limit reached"
TradesHalt == "Max trades reached"

\* Supervisor.halt; _log_action records the reason with the timestamp in the
\* account-update log
halt(st, reason, now) ==
  [st EXCEPT !.halted = TRUE, !.halt_reason = Some(reason),
             !.halts = @ \cup {[reason |-> reason, at |-> now]}]

DailyLimit(acc) == (-acc.daily_pnl) * PctDen >= acc.starting_equity * max_daily_drawdown_pct
WeeklyLimit(acc) == (-acc.weekly_pnl) * PctDen >= acc.starting_equity * max_weekly_drawdown_pct

evaluate_limits(st, now) ==
  IF DailyLimit(st.account) THEN halt(st, DailyHalt, now)
  ELSE IF WeeklyLimit(st.account) THEN halt(st, WeeklyHalt, now)
  ELSE st

on_trade_closed(st, now) == evaluate_limits(st, now)

_maybe_reset(st, now) ==
  Bind(IF st.account.last_daily_reset = None
          \/ DayOf(now) # DayOf(Val(st.account.last_daily_reset))
       THEN [st EXCEPT !.account = reset_daily(@, now), !.halted = FALSE, !.halt_reason = None]
       ELSE st, LAMBDA s1 :
    IF s1.account.last_weekly_reset = None
       \/ IsoWeek(Val(s1.account.last_weekly_reset)) # IsoWeek(now)
    THEN [s1 EXCEPT !.account = reset_weekly(@, now)]
    ELSE s1)

_in_news_blackout(now) == \E event_time \in NewsEvents : Abs(event_time - now) <= news_halt_minutes

\* sessions.current_session(now, enabled sessions) is not None
InSession(now) == \E s \in Sessions : s.start <= MinuteOfDay(now) /\ MinuteOfDay(now) <= s.end

\* can_trade with the trade-count and drawdown tests ahead of the news and
\* session tests
can_trade_LimitsFirst(st, now) ==
  Bind(_maybe_reset(st, now), LAMBDA s1 :
    IF s1.halted THEN [st |-> s1, ok |-> FALSE]
    ELSE IF s1.account.trades_today >= max_trades_per_day
    THEN [st |-> halt(s1, TradesHalt, now), ok |-> FALSE]
    ELSE IF DailyLimit(s1.account)
    THEN [st |-> halt(s1, DailyHalt, now), ok |-> FALSE]
    ELSE IF WeeklyLimit(s1.account)
    THEN [st |-> halt(s1, WeeklyHalt, now), ok |-> FALSE]
    ELSE IF _in_news_blackout(now) THEN [st |-> s1, ok |-> FALSE]
    ELSE IF ~InSession(now) THEN [st |-> s1, ok |-> FALSE]
    ELSE [st |-> s1, ok |-> TRUE])

\* can_trade without the weekly drawdown test
can_trade_NoWeekly(st, now) ==
  Bind(_maybe_reset(st, now), LAMBDA s1 :
    IF s1.halted THEN [st |-> s1, ok |-> FALSE]
    ELSE IF _in_news_blackout(now) THEN [st |-> s1, ok |-> FALSE]
    ELSE IF ~InSession(now) THEN [st |-> s1, ok |-> FALSE]
    ELSE IF s1.account.trades_today >= max_trades_per_day
    THEN [st |-> halt(s1, TradesHalt, now), ok |-> FALSE]
    ELSE IF DailyLimit(s1.account)
    THEN [st |-> halt(s1, DailyHalt, now), ok |-> FALSE]
    ELSE [st |-> s1, ok |-> TRUE])

\* Supervisor.can_trade: the supervisor/account after the call and the result
can_trade(st, now) ==
  Bind(_maybe_reset(st, now), LAMBDA s1 :
    IF s1.halted THEN [st |-> s1, ok |-> FALSE]
    ELSE IF _in_news_blackout(now) THEN [st |-> s1, ok |-> FALSE]
    ELSE IF ~InSession(now) THEN [st |-> s1, ok |-> FALSE]
    ELSE IF s1.account.trades_today >= max_trades_per_day
    THEN [st |-> halt(s1, TradesHalt, now), ok |-> FALSE]
    ELSE IF DailyLimit(s1.account)
    THEN [st |-> halt(s1, DailyHalt, now), ok |-> FALSE]
    ELSE IF WeeklyLimit(s1.account)
    THEN [st |-> halt(s1, WeeklyHalt, now), ok |-> FALSE]
    ELSE [st |-> s1, ok |-> TRUE])

\* handle_bias_snapshot without the WAITING branch: only filled orders react
BiasEvent_WaitingKept(os, o, direction, now, last_price) ==
  IF o.direction = direction THEN None
  ELSE IF o.state \in {FILLED, MANAGING}
  THEN Some(close_order(o, now, "CANCELLED", last_price, FillPrice(o), "bias_flip"))
  ELSE None

\* The event handle_bias_snapshot produces for one active order, None if none
BiasEvent(os, o, direction, now, last_price) ==
  IF o.direction = direction THEN None
  ELSE IF o.state = WAITING THEN cancel_order(os, o.order_id, now, "bias_flip")
  ELSE IF o.state \in {FILLED, MANAGING}
  THEN Some(close_order(o, now, "CANCELLED", last_price, FillPrice(o), "bias_flip"))
  ELSE None

RECURSIVE BiasEvents(_, _, _, _, _)
BiasEvents(os, direction, now, last_price, i) ==
  IF i > Len(os) THEN <<>>
  ELSE (IF IsActive(os[i]) THEN BiasEvent(os, os[i], direction, now, last_price) ELSE None)
       \o BiasEvents(os, direction, now, last_price, i + 1)

\* Supervisor.handle_bias_snapshot (last is last_bias_direction before the call)
handle_bias_snapshot(os, last, direction, now, last_price) ==
  IF last # None /\ direction # Val(last)
  THEN BiasEvents(os, direction, now, last_price, 1)
  ELSE <<>>

\* -------------------------------------------------------- engines/execution.py
\* ExecutionEngine._derive_orders; fvg_bounds is None or <<[low, high]>>
\* _derive_orders with the long stop on the wrong side of the entry
_derive_orders_StopAbove(direction, fvg_bounds, last_close, bias_target) ==
  LET entry == IF fvg_bounds # None
               THEN (Val(fvg_bounds).low + Val(fvg_bounds).high) \div 2
               ELSE last_close
      gap == IF fvg_bounds # None THEN Abs(Val(fvg_bounds).high - Val(fvg_bounds).low) ELSE OnePoint
      stop_dist == Max(gap, HalfPoint)
  IN IF direction = LONG
     THEN LET default_target == entry + stop_dist * 2
          IN [entry |-> entry, stop |-> entry + stop_dist,
              target |-> IF bias_target = None THEN default_target
                         ELSE Max(default_target, Val(bias_target))]
     ELSE LET default_target == entry - stop_dist * 2
          IN [entry |-> entry, stop |-> entry + stop_dist,
              target |-> IF bias_target = None THEN default_target
                         ELSE Min(default_target, Val(bias_target))]

_derive_orders(direction, fvg_bounds, last_close, bias_target) ==
  LET entry == IF fvg_bounds # None
               THEN (Val(fvg_bounds).low + Val(fvg_bounds).high) \div 2
               ELSE last_close
      gap == IF fvg_bounds # None THEN Abs(Val(fvg_bounds).high - Val(fvg_bounds).low) ELSE OnePoint
      stop_buffer == IF fvg_bounds # None THEN gap ELSE Max(HalfPoint, gap)
      stop_dist == Max(stop_buffer, HalfPoint)
  IN IF direction = LONG
     THEN LET default_target == entry + stop_dist * 2
          IN [entry |-> entry, stop |-> entry - stop_dist,
              target |-> IF bias_target = None THEN default_target
                         ELSE Max(default_target, Val(bias_target))]
     ELSE LET default_target == entry - stop_dist * 2
          IN [entry |-> entry, stop |-> entry + stop_dist,
              target |-> IF bias_target = None THEN default_target
                         ELSE Min(default_target, Val(bias_target))]

\* ------------------------------------------------------ engines/structure.py
\* ict_utils.fibonacci_zone: the pair it returns, in hundredths of a tick
\* (0.62 and 0.79 are 62 and 79 hundredths)
fibonacci_zone(high, low, direction) ==
  LET range_size == high - low
  IN IF range_size <= 0 THEN [first |-> high * PctDen, second |-> low * PctDen]
     ELSE IF direction = LONG
     THEN LET zone_high == low * PctDen + range_size * 62
              zone_low == low * PctDen + range_size * 79
          IN [first |-> Min(zone_high, zone_low), second |-> Max(zone_high, zone_low)]
     ELSE LET zone_low == high * PctDen - range_size * 62
              zone_high == high * PctDen - range_size * 79
          IN [first |-> Max(zone_high, zone_low), second |-> Min(zone_high, zone_low)]

\* ict_utils.detect_fvg on the last three candles of the buffer: None or the
\* gap found
detect_fvg(c1, c2, c3, direction) ==
  IF direction = LONG
  THEN LET gap_low == Max(c1.high, c2.high)
           gap_high == Min(c2.low, c3.low)
       IN IF gap_low >= gap_high THEN None
          ELSE IF c2.close - c2.open <= 0 THEN None
          ELSE Some([low |-> gap_low, high |-> gap_high])
  ELSE LET gap_high == Min(c1.low, c2.low)
           gap_low == Max(c2.high, c3.high)
       IN IF gap_high <= gap_low THEN None
          ELSE IF c2.open - c2.close <= 0 THEN None
          ELSE Some([low |-> gap_low, high |-> gap_high])

\* StructureEngine.update once 12 candles are buffered: high and low are the
\* dealing range of the buffer, fvg what detect_fvg found in it (None or a
\* gap), b the latest bias snapshot
StructureEngine_update(b, high, low, fvg, candle) ==
  LET direction == IF b = None THEN LONG ELSE Val(b).bias
      fz == fibonacci_zone(high, low, direction)
      zone_low == IF fvg = None THEN fz.first ELSE Min(fz.first, Val(fvg).low * PctDen)
      zone_high == IF fvg = None THEN fz.second ELSE Max(fz.second, Val(fvg).high * PctDen)
  IN [direction |-> direction, low |-> Min(zone_low, zone_high), high |-> Max(zone_low, zone_high),
      generated_at |-> candle.timestamp,
      expires_at |-> Some(candle.timestamp + TIMEFRAME_MINUTES["15m"] * 4)]

\* ------------------------------------------------------ engines/execution.py
\* ExecutionEngine._valid_structure on the latest zone of the store
_valid_structure(latest_structure, now) ==
  IF latest_structure = None THEN None
  ELSE IF Val(latest_structure).expires_at # None /\ Val(Val(latest_structure).expires_at) < now
  THEN None
  ELSE latest_structure

\* StructureZone.contains; zone bounds are in hundredths of a tick
contains(zone, price) == zone.low <= price * PctDen /\ price * PctDen <= zone.high

\* evaluate recording the whole part of the ratio as the signal's rr
evaluate_RrTruncated(b, latest_structure, c, pattern) ==
  Bind(_valid_structure(latest_structure, c.timestamp), LAMBDA structure :
  IF b = None \/ structure = None THEN None
  ELSE IF Val(structure).direction # Val(b).bias THEN None
  ELSE IF ~contains(Val(structure), c.close) THEN None
  ELSE IF pattern = None THEN None
  ELSE
    Bind(_derive_orders(Val(b).bias, Val(pattern), c.close, Val(b).target_price), LAMBDA d :
    Bind(Abs(d.target - d.entry), LAMBDA reward :
    Bind(Abs(d.entry - d.stop), LAMBDA risk :
      IF (risk > 0 /\ reward < rr_target * risk) \/ (risk = 0 /\ reward = 0) THEN None
      ELSE Some([direction |-> Val(b).bias, entry |-> d.entry, stop |-> d.stop,
                 target |-> d.target, rr |-> [num |-> reward \div Max(risk, 1), den |-> 1],
                 generated_at |-> c.timestamp])))))

\* ExecutionEngine.evaluate: the latest bias snapshot b and the latest zone
\* are read from the store; the pattern detection on the candle buffer is
\* the input `pattern` (None: too few candles, no sweep in the bias
\* direction or no displacement; otherwise the fair-value-gap bounds found,
\* themselves None or a gap).
\* 1e-6 is below one tick, so max(1e-6, d) is d for d >= 1 and 1e-6 for d = 0.
evaluate(b, latest_structure, c, pattern) ==
  Bind(_valid_structure(latest_structure, c.timestamp), LAMBDA structure :
  IF b = None \/ structure = None THEN None
  ELSE IF Val(structure).direction # Val(b).bias THEN None
  ELSE IF ~contains(Val(structure), c.close) THEN None
  ELSE IF pattern = None THEN None
  ELSE
    Bind(_derive_orders(Val(b).bias, Val(pattern), c.close, Val(b).target_price), LAMBDA d :
    Bind(Abs(d.target - d.entry), LAMBDA reward :
    Bind(Abs(d.entry - d.stop), LAMBDA risk :
      IF (risk > 0 /\ reward < rr_target * risk) \/ (risk = 0 /\ reward = 0) THEN None
      ELSE Some([direction |-> Val(b).bias, entry |-> d.entry, stop |-> d.stop,
                 target |-> d.target, rr |-> [num |-> reward, den |-> risk],
                 generated_at |-> c.timestamp])))))

\* ExecutionEngine.evaluate from its first line: buffered is the length of
\* the candle buffer once the candle is appended; below min_candles the
\* engine returns before it reads the store
min_candles == 5
evaluate_buffered(buffered, b, latest_structure, c, pattern) ==
  IF buffered < min_candles THEN None ELSE evaluate(b, latest_structure, c, pattern)

\* ---------------------------------------------------------- trading_agent.py
\* the state the book holds for an order id, "absent" if it holds none
StateOf(os, id) == IF IndexOf(os, id) = 0 THEN "absent" ELSE os[IndexOf(os, id)].state

\* account.apply_trade_result as _process_events calls it: the update is
\* entered in the handler's log of writes with the state the book holds for
\* the event's order at that moment
ApplyResult(st, e, pnl) ==
  [st EXCEPT !.account = apply_trade_result(@, pnl),
             !.writes = Append(@, [order_id |-> e.order_id, from |-> StateOf(st.orders, e.order_id),
                                   to |-> "account"])]

\* _process_events applying a result for every event of a known order, a
\* missing pnl counting as 0
RECURSIVE _process_events_AnyEvent(_, _)
_process_events_AnyEvent(st, evs) ==
  IF evs = <<>> THEN st
  ELSE
    Bind(handle_event(st, Head(evs)), LAMBDA h :
      _process_events_AnyEvent(IF h.found
                               THEN on_trade_closed(ApplyResult(h.st, Head(evs),
                                                                IF h.pnl = None THEN 0
                                                                ELSE Val(h.pnl)),
                                                    Head(evs).timestamp)
                               ELSE h.st,
                               Tail(evs)))

\* TradingAgent._process_events
RECURSIVE _process_events(_, _)
_process_events(st, evs) ==
  IF evs = <<>> THEN st
  ELSE
    Bind(handle_event(st, Head(evs)), LAMBDA h :
      _process_events(IF h.found /\ h.pnl # None
                      THEN on_trade_closed(ApplyResult(h.st, Head(evs), Val(h.pnl)),
                                           Head(evs).timestamp)
                      ELSE h.st,
                      Tail(evs)))

_within_position_limits(os) ==
  Cardinality({i \in 1..Len(os) : os[i].state \in {FILLED, MANAGING}}) < max_concurrent_positions

\* TradingAgent._handle_signal: the store after it and the PLACED event
_handle_signal(st, signal, now) ==
  Bind(build_order_plan(signal, st.account, now), LAMBDA plan :
    IF plan = None THEN [st |-> st, evs |-> <<>>]
    ELSE Bind(place_order(Val(plan), now), LAMBDA e :
           [st |-> _process_events(register_order(st, Val(plan)), <<e>>), evs |-> <<e>>]))

\* on_execution_close with the can_trade result ignored: the engine is
\* consulted and its signal handled on every bar
on_execution_close_Ungated(st, b, z, c, pattern) ==
  Bind(process_candle(st.orders, c, 1), LAMBDA ev1 :
  Bind(_process_events(MarkFills(st, ev1), ev1), LAMBDA s1 :
  Bind(enforce_time_stop([st |-> s1, evs |-> <<>>], c, 1), LAMBDA ts :
  Bind(_process_events(ts.st, ts.evs), LAMBDA s2 :
  Bind(can_trade(s2, c.timestamp), LAMBDA g :
  Bind(evaluate(b, z, c, pattern), LAMBDA signal :
  Bind(IF signal # None /\ _within_position_limits(g.st.orders)
       THEN _handle_signal(g.st, Val(signal), c.timestamp)
       ELSE [st |-> g.st, evs |-> <<>>], LAMBDA h :
    [st |-> h.st, evs |-> ev1 \o ts.evs \o h.evs, gate |-> g.ok])))))))

\* on_execution_close running the time stop on the book as it was before the
\* candle's events were processed
on_execution_close_StaleBook(st, b, z, c, pattern) ==
  Bind(process_candle(st.orders, c, 1), LAMBDA ev1 :
  Bind(enforce_time_stop([st |-> MarkFills(st, ev1), evs |-> <<>>], c, 1), LAMBDA ts :
  Bind(_process_events(ts.st, ev1 \o ts.evs), LAMBDA s2 :
  Bind(can_trade(s2, c.timestamp), LAMBDA g :
  Bind(IF g.ok THEN evaluate(b, z, c, pattern) ELSE None, LAMBDA signal :
  Bind(IF signal # None /\ _within_position_limits(g.st.orders)
       THEN _handle_signal(g.st, Val(signal), c.timestamp)
       ELSE [st |-> g.st, evs |-> <<>>], LAMBDA h :
    [st |-> h.st, evs |-> ev1 \o ts.evs \o h.evs, gate |-> g.ok]))))))

\* TradingAgent.on_execution_close as one step: r.st the store, account and
\* supervisor after the handler, r.evs every event emitted, r.gate the
\* result of can_trade; b and z are the latest bias snapshot and the latest
\* structure zone of the store
on_execution_close(st, b, z, c, pattern) ==
  Bind(process_candle(st.orders, c, 1), LAMBDA ev1 :
  Bind(_process_events(MarkFills(st, ev1), ev1), LAMBDA s1 :
  Bind(enforce_time_stop([st |-> s1, evs |-> <<>>], c, 1), LAMBDA ts :
  Bind(_process_events(ts.st, ts.evs), LAMBDA s2 :
  Bind(can_trade(s2, c.timestamp), LAMBDA g :
  Bind(IF g.ok THEN evaluate(b, z, c, pattern) ELSE None, LAMBDA signal :
  Bind(IF signal # None /\ _within_position_limits(g.st.orders)
       THEN _handle_signal(g.st, Val(signal), c.timestamp)
       ELSE [st |-> g.st, evs |-> <<>>], LAMBDA h :
    [st |-> h.st, evs |-> ev1 \o ts.evs \o h.evs, gate |-> g.ok])))))))

\* ------------------------------------------------------------------- inputs
Directions == {LONG, SHORT}
\* closes are drawn from the levels strictly inside the price range
Closes == {p \in Prices : 0 < p /\ p < MaxPrice}
Candles == {[high |-> h, low |-> l, close |-> x] : h \in Prices, l \in Prices, x \in Closes}
BarShapes == {k \in Candles : k.low <= k.close /\ k.close <= k.high}
\* the patterns fed to the engine in a replay: no displacement (None), or a
\* displacement without a fair-value gap (Some(None)); the gap branch of
\* _derive_orders is exercised by SpecCalc
Patterns == {None, Some(None)}
\* BiasEngine.update: the target of a long bias is a range high, of a short
\* bias a range low
BiasTargets(direction) == IF direction = LONG THEN {MaxPrice} ELSE {0}

\* The timestamps of the 1m candles replayed, in minutes from midnight of the
\* first day: 01:59 to 02:02 on one day and on the next (the first session
\* opens at 02:00)
Tape == <<119, 120, 121, 122, 1559, 1560, 1561, 1562>>

\* MultiTimeframeAggregator.add for the 5m and 1h buckets: the candles a base
\* candle at t completes, in increasing period order, each stamped with the
\* start of its period (CandleBucket.update)
Completed(t, u) ==
  IF t = None THEN <<>>
  ELSE (IF FloorTime(u, 5) # FloorTime(Val(t), 5)
        THEN <<[timeframe |-> "5m", timestamp |-> FloorTime(Val(t), 5)]>> ELSE <<>>)
       \o
       (IF FloorTime(u, 60) # FloorTime(Val(t), 60)
        THEN <<[timeframe |-> "1h", timestamp |-> FloorTime(Val(t), 60)]>> ELSE <<>>)

\* MultiTimeframeAggregator.flush: every bucket that holds a candle
Flushed(t) ==
  IF t = None THEN <<>>
  ELSE <<[timeframe |-> "5m", timestamp |-> FloorTime(Val(t), 5)],
         [timeframe |-> "1h", timestamp |-> FloorTime(Val(t), 60)]>>

\* The structure zone in the store during a replay: StructureEngine's 15m
\* candles are not replayed, the zone is one written for the current bias
\* that covers the price range and is still valid; the bars on which the
\* engine finds no usable zone are among those of pattern None
ReplayZone(b, c) ==
  IF b = None THEN None
  ELSE Some([direction |-> Val(b).bias, low |-> 0, high |-> MaxPrice * PctDen,
             generated_at |-> c.timestamp,
             expires_at |-> Some(c.timestamp + TIMEFRAME_MINUTES["15m"] * 4)])

Store == [orders |-> orders, account |-> account, halted |-> halted,
          halt_reason |-> halt_reason, halts |-> halts, writes |-> <<>>]

\* ------------------------------------------------------------- specification
Init ==
  /\ orders = <<>>
  /\ account = NewAccount(StartingEquity)
  /\ halted = FALSE
  /\ halt_reason = None
  /\ last_bias_direction = None
  /\ bias = None
  /\ trades = <<>>
  /\ halts = {}
  /\ clock = None
  /\ nbars = 0
  /\ pending = <<>>
  /\ ended = FALSE
  /\ bar = None
  /\ events = <<>>
  /\ writes = <<>>
  /\ gate = None
  /\ calc = None
  /\ agg = None

Apply(r) ==
  /\ orders' = r.st.orders
  /\ account' = r.st.account
  /\ halted' = r.st.halted
  /\ halt_reason' = r.st.halt_reason
  /\ halts' = r.st.halts
  /\ writes' = r.st.writes
  /\ events' = r.evs
  /\ trades' = LogEvents(trades, r.evs)

\* dispatch_stream hands the next 1m candle to the aggregator and the agent:
\* TradingAgent.on_execution_close runs on it, the candles it completes wait
\* for their turn
ExecutionBar1m ==
  /\ pending = <<>> /\ ~ended /\ nbars < MaxBars /\ nbars < Len(Tape)
  /\ \E k \in BarShapes :
       LET t == Tape[nbars + 1]
           c == [timeframe |-> "1m", timestamp |-> t, high |-> k.high, low |-> k.low, close |-> k.close]
       IN \E pattern \in Patterns :
            \E r \in {on_execution_close(Store, bias, ReplayZone(bias, c), c, pattern)} :
               /\ Len(r.st.orders) <= MaxOrders
               /\ Apply(r)
               /\ gate' = Some(r.gate)
               /\ bar' = Some(c)
               /\ clock' = Some(t)
               /\ nbars' = nbars + 1
               /\ pending' = Completed(clock, t)
               /\ UNCHANGED <<last_bias_direction, bias, ended, calc, agg>>

\* A completed 5m candle reaches TradingAgent.on_execution_close (_wire
\* registers the handler for every execution timeframe).  Its prices are
\* inputs.
ExecutionBar5m ==
  /\ pending # <<>> /\ Head(pending).timeframe = "5m"
  /\ \E k \in BarShapes :
       LET c == [timeframe |-> "5m", timestamp |-> Head(pending).timestamp,
                 high |-> k.high, low |-> k.low, close |-> k.close]
       IN \E pattern \in Patterns :
            \E r \in {on_execution_close(Store, bias, ReplayZone(bias, c), c, pattern)} :
               /\ Len(r.st.orders) <= MaxOrders
               /\ Apply(r)
               /\ gate' = Some(r.gate)
               /\ bar' = Some(c)
               /\ pending' = Tail(pending)
               /\ UNCHANGED <<last_bias_direction, bias, clock, nbars, ended, calc, agg>>

\* A completed candle of the primary bias timeframe reaches
\* TradingAgent.on_bias_close: BiasEngine.update pushes a snapshot (direction
\* and target are inputs), then the supervisor reacts to it
BiasBar ==
  /\ pending # <<>> /\ Head(pending).timeframe = "1h"
  /\ \E direction \in Directions, last_price \in Closes :
       \E target \in BiasTargets(direction) :
         \E now \in {Head(pending).timestamp} :
         \E evs \in {handle_bias_snapshot(orders, last_bias_direction, direction, now, last_price)} :
            /\ Apply([st |-> _process_events(Store, evs), evs |-> evs])
            /\ bias' = Some([bias |-> direction, target_price |-> Some(target)])
            /\ last_bias_direction' = Some(direction)
            /\ gate' = None
            /\ bar' = Some([timeframe |-> "1h", timestamp |-> now, direction |-> direction,
                            close |-> last_price])
            /\ pending' = Tail(pending)
            /\ UNCHANGED <<clock, nbars, ended, calc, agg>>

\* End of the stream: dispatch_stream flushes the aggregator
Flush ==
  /\ pending = <<>> /\ ~ended /\ clock # None
  /\ pending' = Flushed(clock)
  /\ ended' = TRUE
  /\ events' = <<>> /\ writes' = <<>> /\ gate' = None /\ bar' = None
  /\ UNCHANGED <<orders, account, halted, halt_reason, halts, last_bias_direction, bias, trades, clock, nbars, calc, agg>>

Next == ExecutionBar1m \/ ExecutionBar5m \/ BiasBar \/ Flush

Spec == Init /\ [][Next]_vars

\* ------------------------------------------- the sizing and signal functions
\* Second specification: build_order_plan, and the path from an execution
\* signal to the exit of its order, applied to inputs drawn by the initial
\* state.  Prices here use every tick; a fair-value gap has a midpoint on the
\* tick grid.
CalcPrices == 0..MaxPrice
CalcEquities == {-1000, 0, 100, 150, 196000, StartingEquity}
\* equity 100,000, entry 2400, stop 2395
SizingExample == [kind |-> "size", equity |-> StartingEquity, entry |-> 4800, stop |-> 4790]
SizeInputs ==
  {[kind |-> "size", equity |-> q, entry |-> e, stop |-> x] :
     q \in CalcEquities, e \in CalcPrices, x \in CalcPrices} \cup {SizingExample}
CalcGaps ==
  {f \in [low : CalcPrices, high : CalcPrices] : f.low < f.high /\ (f.low + f.high) % 2 = 0}
CalcPatterns == {Some(None)} \cup {Some(Some(f)) : f \in CalcGaps}
CalcTargets == {None} \cup {Some(p) : p \in CalcPrices}
TradeInputs ==
  {[kind |-> "trade", direction |-> d, pattern |-> f, close |-> x, bias_target |-> t, exit_at |-> a] :
     d \in Directions, f \in CalcPatterns, x \in CalcPrices \ {0, MaxPrice}, t \in CalcTargets,
     a \in {"stop", "target"}}

\* StructureEngine.update: the bias, the extremes of the earlier candles of
\* the window and the last three candles of the buffer.  Candle does not
\* validate its fields: the candles drawn include ones with high < low, the
\* only ones for which detect_fvg finds a gap.
GapPrices == {MaxPrice \div 2 - 1, MaxPrice \div 2 + 1}
LastThree ==
  [c1 : [high : GapPrices, low : GapPrices], c3 : [high : GapPrices, low : GapPrices],
   c2 : [high : GapPrices, low : GapPrices, open : {MaxPrice \div 2},
         close : {MaxPrice \div 2 - 1, MaxPrice \div 2, MaxPrice \div 2 + 1}]]
ZoneInputs ==
  {[kind |-> "zone", bias |-> b, high |-> h, low |-> l, last |-> t, timestamp |-> Tape[2]] :
     b \in {None} \cup {Some([bias |-> d, target_price |-> None]) : d \in Directions},
     h \in CalcPrices, l \in CalcPrices, t \in LastThree}
\* dealing_range over the buffer: the extremes of the earlier candles and of
\* the last three
ZoneRange(in) ==
  [high |-> Max(in.high, Max(in.last.c1.high, Max(in.last.c2.high, in.last.c3.high))),
   low |-> Min(in.low, Min(in.last.c1.low, Min(in.last.c2.low, in.last.c3.low)))]
\* the gap detect_fvg finds for the direction the engine uses
ZoneGap(in) ==
  detect_fvg(in.last.c1, in.last.c2, in.last.c3, IF in.bias = None THEN LONG ELSE Val(in.bias).bias)
\* ExecutionEngine.evaluate: the length of the candle buffer, the bias, the
\* latest zone (written up to an hour before the bar or later), the bar and
\* the pattern found
SignalZones(now) ==
  {[direction |-> d, low |-> l * PctDen, high |-> MaxPrice * PctDen, generated_at |-> t,
    expires_at |-> Some(t + TIMEFRAME_MINUTES["15m"] * 4)] :
     d \in Directions, l \in {0, MaxPrice \div 2},
     t \in {now - TIMEFRAME_MINUTES["1h"] - 1, now - TIMEFRAME_MINUTES["1h"],
            now - TIMEFRAME_MINUTES["1h"] + 1, now - 1}}
SignalInputs ==
  {[kind |-> "signal", buffered |-> n, bias |-> b, zone |-> z, close |-> x, timestamp |-> Tape[2],
    pattern |-> f] :
     n \in {min_candles - 1, min_candles, 3 * min_candles},
     b \in {None} \cup {Some([bias |-> d, target_price |-> None]) : d \in Directions},
     z \in {None} \cup {Some(y) : y \in SignalZones(Tape[2])},
     x \in {1, MaxPrice - 1}, f \in {None, Some(None)}}

EmptyStore == [orders |-> <<>>, account |-> NewAccount(StartingEquity), halted |-> FALSE,
               halt_reason |-> None, halts |-> {}, writes |-> <<>>]

\* a signal one tick of risk and two of reward around its entry
SignalAt(direction, entry, now) ==
  [direction |-> direction, entry |-> entry,
   stop |-> IF direction = LONG THEN entry - 1 ELSE entry + 1,
   target |-> IF direction = LONG THEN entry + 2 ELSE entry - 2,
   rr |-> [num |-> 2, den |-> 1], generated_at |-> now]

\* the store after _handle_signal has placed the order of such a signal
PlacedStore(direction, entry) ==
  Bind(_handle_signal(EmptyStore, SignalAt(direction, entry, Tape[2]), Tape[2]).st, LAMBDA st :
    [st EXCEPT !.writes = <<>>])

\* _process_events on one OrderEvent: the book is empty or holds one order
\* (placed at Tape[2], in the given state); the event names that order or an
\* id the book does not hold, and carries no P&L, a loss beyond the daily
\* limit or a gain
EventTypes == {"PLACED", "FILLED", "TP_HIT", "SL_HIT", "TIME_STOP", "EXPIRED", "CANCELLED"}
EventInputs ==
  {[kind |-> "event", state |-> x, order_id |-> id, event_type |-> ty, pnl |-> p] :
     x \in {"absent", WAITING, MANAGING}, id \in {Tape[2], Tape[3]}, ty \in EventTypes,
     p \in {None, Some(-(StartingEquity \div 40)), Some(StartingEquity \div 400)}}

\* Supervisor.can_trade on one timestamp: minutes of the ninth day before the
\* first session, inside it, at both edges of the news blackout and after the
\* session; the account's counters at and next to their limits, the halted
\* flag, and last resets on the same day, the day before, a week before or
\* never
GateTimes == {8 * MinutesPerDay + m : m \in {100, 150, 294, 295, 305, 306}}
DailyCash == (StartingEquity * max_daily_drawdown_pct) \div PctDen
WeeklyCash == (StartingEquity * max_weekly_drawdown_pct) \div PctDen
GateInputs ==
  [kind : {"gate"}, now : GateTimes, halted : BOOLEAN,
   trades_today : {0, max_trades_per_day - 1, max_trades_per_day},
   daily_pnl : {0, 1 - DailyCash, -DailyCash},
   weekly_pnl : {0, 1 - WeeklyCash, -WeeklyCash},
   daily_age : {None, Some(0), Some(MinutesPerDay)},
   weekly_age : {None, Some(0), Some(MinutesPerDay), Some(7 * MinutesPerDay)}]

\* on_execution_close on a candle that may place an order: the number of
\* WAITING orders placed earlier on the day, the trades closed on the day,
\* the P&L of the week so far and the pattern found
PlaceInputs ==
  [kind : {"place"}, placed : 0..max_trades_per_day,
   trades_today : {0, max_trades_per_day - 1, max_trades_per_day},
   weekly_pnl : {0, 1 - WeeklyCash, -WeeklyCash}, pattern : Patterns]

\* on_execution_close on one candle with one WAITING order in the book: the
\* order's direction and entry, the candle's range, and the candle's
\* timestamp relative to the order's expiry (before, equal, after)
BarInputs ==
  {i \in [kind : {"bar"}, direction : Directions, entry : 2..(MaxPrice - 2), dt : {-1, 0, 1},
          low : CalcPrices, high : CalcPrices] : i.low <= i.high}

\* signal -> plan -> registered and placed -> filled at its entry -> a bar at
\* the stop or at the target
TradeOutcome(in) ==
  LET c0 == [timeframe |-> "1m", timestamp |-> Tape[2], high |-> in.close, low |-> in.close,
             close |-> in.close]
      b == Some([bias |-> in.direction, target_price |-> in.bias_target])
      signal == evaluate(b, ReplayZone(b, c0), c0, in.pattern)
  IN IF signal = None THEN [signal |-> None, order |-> None, events |-> <<>>]
     ELSE LET placed == _handle_signal(EmptyStore, Val(signal), c0.timestamp).st
              plan == placed.orders[1]
              c1 == [timeframe |-> "1m", timestamp |-> c0.timestamp + 1, high |-> plan.entry,
                     low |-> plan.entry, close |-> plan.entry]
              ev1 == process_candle(placed.orders, c1, 1)
              filled == _process_events(MarkFills(placed, ev1), ev1)
              level == IF in.exit_at = "stop" THEN plan.stop ELSE plan.target
              c2 == [timeframe |-> "1m", timestamp |-> c1.timestamp + 1, high |-> level,
                     low |-> level, close |-> level]
          IN [signal |-> signal, order |-> Some(filled.orders[1]),
              events |-> process_candle(filled.orders, c2, 1)]

InitCalc ==
  /\ orders = <<>>
  /\ account = NewAccount(StartingEquity)
  /\ halted = FALSE
  /\ halt_reason = None
  /\ last_bias_direction = None
  /\ bias = None
  /\ trades = <<>>
  /\ halts = {}
  /\ clock = None
  /\ nbars = 0
  /\ pending = <<>>
  /\ ended = FALSE
  /\ bar = None
  /\ events = <<>>
  /\ writes = <<>>
  /\ gate = None
  /\ calc \in {Some([input |-> i, output |-> None]) :
                 i \in SizeInputs \cup TradeInputs \cup ZoneInputs \cup SignalInputs
                       \cup EventInputs \cup BarInputs \cup GateInputs \cup PlaceInputs}
  /\ agg = None

SizeOrder ==
  /\ calc # None /\ Val(calc).input.kind = "size" /\ Val(calc).output = None
  /\ LET in == Val(calc).input
         signal == [direction |-> LONG, entry |-> in.entry, stop |-> in.stop, target |-> in.entry]
     IN calc' = Some([input |-> in,
                      output |-> Some(build_order_plan(signal, NewAccount(in.equity), Tape[1]))])
  /\ UNCHANGED <<orders, account, halted, halt_reason, last_bias_direction, bias, trades, halts,
                 clock, nbars, pending, ended, bar, events, writes, gate, agg>>

TradeSignal ==
  /\ calc # None /\ Val(calc).input.kind = "trade" /\ Val(calc).output = None
  /\ calc' = Some([input |-> Val(calc).input, output |-> Some(TradeOutcome(Val(calc).input))])
  /\ UNCHANGED <<orders, account, halted, halt_reason, last_bias_direction, bias, trades, halts,
                 clock, nbars, pending, ended, bar, events, writes, gate, agg>>

\* StructureEngine.update on a 15m candle
ZoneUpdate ==
  /\ calc # None /\ Val(calc).input.kind = "zone" /\ Val(calc).output = None
  /\ LET in == Val(calc).input
         candle == [timeframe |-> "15m", timestamp |-> in.timestamp]
     IN calc' = Some([input |-> in,
                      output |-> Some(StructureEngine_update(in.bias, ZoneRange(in).high,
                                                             ZoneRange(in).low, ZoneGap(in),
                                                             candle))])
  /\ UNCHANGED <<orders, account, halted, halt_reason, last_bias_direction, bias, trades, halts,
                 clock, nbars, pending, ended, bar, events, writes, gate, agg>>

\* ExecutionEngine.evaluate on an execution candle
EvaluateBar ==
  /\ calc # None /\ Val(calc).input.kind = "signal" /\ Val(calc).output = None
  /\ LET in == Val(calc).input
         c == [timeframe |-> "1m", timestamp |-> in.timestamp, high |-> in.close, low |-> in.close,
               close |-> in.close]
     IN calc' = Some([input |-> in, output |-> Some(evaluate_buffered(in.buffered, in.bias, in.zone, c,
                                                                 in.pattern))])
  /\ UNCHANGED <<orders, account, halted, halt_reason, last_bias_direction, bias, trades, halts,
                 clock, nbars, pending, ended, bar, events, writes, gate, agg>>

\* TradingAgent._process_events on a list of one event
ProcessEvent ==
  /\ calc # None /\ Val(calc).input.kind = "event" /\ Val(calc).output = None
  /\ LET in == Val(calc).input
         before == IF in.state = "absent" THEN EmptyStore
                   ELSE [PlacedStore(LONG, 2) EXCEPT !.orders[1].state = in.state]
         e == Event(in.order_id, Tape[3], in.event_type, Some(2), in.pnl, None, Some("event"))
     IN calc' = Some([input |-> in,
                      output |-> Some([before |-> before, after |-> _process_events(before, <<e>>)])])
  /\ UNCHANGED <<orders, account, halted, halt_reason, last_bias_direction, bias, trades, halts,
                 clock, nbars, pending, ended, bar, events, writes, gate, agg>>

\* TradingAgent.on_execution_close on a candle around the expiry of the one
\* WAITING order; no bias, so no new signal
WaitingBar ==
  /\ calc # None /\ Val(calc).input.kind = "bar" /\ Val(calc).output = None
  /\ LET in == Val(calc).input
         before == PlacedStore(in.direction, in.entry)
         c == [timeframe |-> "1m", timestamp |-> before.orders[1].expires_at + in.dt,
               high |-> in.high, low |-> in.low, close |-> in.high]
     IN calc' = Some([input |-> in,
                      output |-> Some([before |-> before, candle |-> c,
                                       result |-> on_execution_close(before, None, None, c, None)])])
  /\ UNCHANGED <<orders, account, halted, halt_reason, last_bias_direction, bias, trades, halts,
                 clock, nbars, pending, ended, bar, events, writes, gate, agg>>

\* the supervisor and account a gate input describes
GateStore(in) ==
  [EmptyStore EXCEPT
     !.halted = in.halted,
     !.halt_reason = IF in.halted THEN Some(DailyHalt) ELSE None,
     !.account = [NewAccount(StartingEquity) EXCEPT
                    !.equity = StartingEquity + in.weekly_pnl,
                    !.closed_pnl = in.weekly_pnl,
                    !.max_drawdown = -in.weekly_pnl,
                    !.min_equity = StartingEquity + in.weekly_pnl,
                    !.daily_pnl = in.daily_pnl, !.weekly_pnl = in.weekly_pnl,
                    !.trades_today = in.trades_today,
                    !.last_daily_reset =
                       IF in.daily_age = None THEN None ELSE Some(in.now - Val(in.daily_age)),
                    !.last_weekly_reset =
                       IF in.weekly_age = None THEN None ELSE Some(in.now - Val(in.weekly_age))]]

\* Supervisor.can_trade, and Supervisor._maybe_reset on its own
CheckGate ==
  /\ calc # None /\ Val(calc).input.kind = "gate" /\ Val(calc).output = None
  /\ LET in == Val(calc).input
         before == GateStore(in)
     IN calc' = Some([input |-> in,
                      output |-> Some([before |-> before,
                                       reset |-> _maybe_reset(before, in.now),
                                       gate |-> can_trade(before, in.now)])])
  /\ UNCHANGED <<orders, account, halted, halt_reason, last_bias_direction, bias, trades, halts,
                 clock, nbars, pending, ended, bar, events, writes, gate, agg>>

\* the store after _handle_signal has placed n long orders on successive
\* minutes from Tape[6] (02:00 of the second day), at entries 1..n
RECURSIVE WaitingStore(_)
WaitingStore(n) ==
  IF n = 0 THEN EmptyStore
  ELSE Bind(_handle_signal(WaitingStore(n - 1), SignalAt(LONG, n, Tape[6] + n - 1),
                           Tape[6] + n - 1).st, LAMBDA st :
         [st EXCEPT !.writes = <<>>])

\* TradingAgent.on_execution_close on a candle of the same day and session
\* that touches none of the WAITING orders of the book, with a long bias and
\* a zone around the close; the week began the day before
PlaceBar ==
  /\ calc # None /\ Val(calc).input.kind = "place" /\ Val(calc).output = None
  /\ LET in == Val(calc).input
         before == [WaitingStore(in.placed) EXCEPT
                      !.account.trades_today = in.trades_today,
                      !.account.weekly_pnl = in.weekly_pnl,
                      !.account.closed_pnl = in.weekly_pnl,
                      !.account.equity = StartingEquity + in.weekly_pnl,
                      !.account.min_equity = StartingEquity + in.weekly_pnl,
                      !.account.max_drawdown = -in.weekly_pnl,
                      !.account.last_daily_reset = Some(Tape[6]),
                      !.account.last_weekly_reset = Some(Tape[2])]
         c == [timeframe |-> "1m", timestamp |-> Tape[6] + max_trades_per_day,
               high |-> MaxPrice - 1, low |-> MaxPrice - 1, close |-> MaxPrice - 1]
         b == Some([bias |-> LONG, target_price |-> None])
     IN calc' = Some([input |-> in,
                      output |-> Some([before |-> before, candle |-> c,
                                       result |-> on_execution_close(before, b, ReplayZone(b, c),
                                                                     c, in.pattern)])])
  /\ UNCHANGED <<orders, account, halted, halt_reason, last_bias_direction, bias, trades, halts,
                 clock, nbars, pending, ended, bar, events, writes, gate, agg>>

NextCalc ==
  \/ SizeOrder \/ TradeSignal \/ ZoneUpdate \/ EvaluateBar \/ ProcessEvent \/ WaitingBar
  \/ CheckGate \/ PlaceBar

SpecCalc == InitCalc /\ [][NextCalc]_vars

\* ---------------------------------------------------------- data_sources.py
\* Third specification: a MultiTimeframeAggregator built from a base
\* timeframe and a set of target timeframes, fed a stream of base candles in
\* timestamp order and flushed.  agg holds the constructor's arguments, the
\* aggregator (None when the constructor raised), the base candles of the
\* current stream (stream: those added since construction or since the last
\* flush), and the last call (op) with the timeframe of the candle it was
\* given (arg), what it returned (out), the stream it was made on (seen) and
\* the candles dispatch_stream has handed on since that stream began, each
\* call's candles in the order returned (delivered).
\* float("inf"): above every price of the model
Inf == 1000
\* CandleBucket after construction
NewBucket == [start |-> None, open |-> 0, high |-> -Inf, low |-> Inf, close |-> 0, volume |-> 0]

Seeded(period_start, candle) ==
  [start |-> Some(period_start), open |-> candle.open, high |-> candle.high, low |-> candle.low,
   close |-> candle.close, volume |-> candle.volume]

Aggregated(b, timeframe) ==
  [timeframe |-> timeframe, timestamp |-> Val(b.start), open |-> b.open, high |-> b.high,
   low |-> b.low, close |-> b.close, volume |-> b.volume]

\* CandleBucket.update with the seeding of an empty bucket left to the
\* stale fields: the bucket is widened as if it still held its old bars
update_KeepStale(b, timeframe, candle) ==
  LET period_start == floor_time(candle.timestamp, timeframe)
  IN IF b.start = None
     THEN [bucket |-> [b EXCEPT !.start = Some(period_start), !.high = Max(@, candle.high),
                                !.low = Min(@, candle.low), !.close = candle.close,
                                !.volume = @ + candle.volume],
           out |-> None]
     ELSE IF Some(period_start) # b.start
     THEN [bucket |-> Seeded(period_start, candle), out |-> Some(Aggregated(b, timeframe))]
     ELSE [bucket |-> [b EXCEPT !.high = Max(@, candle.high), !.low = Min(@, candle.low),
                                !.close = candle.close, !.volume = @ + candle.volume],
           out |-> None]

\* CandleBucket.update returning the bucket's candle on every call, whether
\* or not the period has advanced
update_EmitAlways(b, timeframe, candle) ==
  LET period_start == floor_time(candle.timestamp, timeframe)
  IN IF b.start = None
     THEN [bucket |-> Seeded(period_start, candle), out |-> None]
     ELSE [bucket |-> Seeded(period_start, candle), out |-> Some(Aggregated(b, timeframe))]

\* CandleBucket.update: the bucket after the candle and the candle returned
update(b, timeframe, candle) ==
  LET period_start == floor_time(candle.timestamp, timeframe)
  IN IF b.start = None
     THEN [bucket |-> Seeded(period_start, candle), out |-> None]
     ELSE IF Some(period_start) # b.start
     THEN [bucket |-> Seeded(period_start, candle), out |-> Some(Aggregated(b, timeframe))]
     ELSE [bucket |-> [b EXCEPT !.high = Max(@, candle.high), !.low = Min(@, candle.low),
                                !.close = candle.close, !.volume = @ + candle.volume],
           out |-> None]

\* CandleBucket.finalize returning the candle with _start left in place
finalize_KeepStart(b, timeframe) ==
  IF b.start = None THEN [bucket |-> b, out |-> None]
  ELSE [bucket |-> b, out |-> Some(Aggregated(b, timeframe))]

\* CandleBucket.finalize: only _start is cleared
finalize(b, timeframe) ==
  IF b.start = None THEN [bucket |-> b, out |-> None]
  ELSE [bucket |-> [b EXCEPT !.start = None], out |-> Some(Aggregated(b, timeframe))]

\* sorted(set(target_timeframes), key=timeframe_to_minutes)
RECURSIVE SortedTimeframes(_)
SortedTimeframes(S) ==
  IF S = {} THEN <<>>
  ELSE LET m == CHOOSE x \in S : \A y \in S : TIMEFRAME_MINUTES[x] <= TIMEFRAME_MINUTES[y]
       IN <<m>> \o SortedTimeframes(S \ {m})

\* MultiTimeframeAggregator.__post_init__; None when it raises (ValueError
\* from the sort key or from the base test, IndexError on an empty list).
\* _buckets is the dict in insertion order, one entry per higher timeframe.
NewAggregator(base_timeframe, target_timeframes) ==
  IF \E tf \in target_timeframes : timeframe_to_minutes(tf) = None THEN None
  ELSE IF target_timeframes = {} THEN None
  ELSE LET ordered == SortedTimeframes(target_timeframes)
       IN IF ordered[1] # base_timeframe THEN None
          ELSE Some([base_timeframe |-> base_timeframe,
                     _ordered_timeframes |-> ordered,
                     _buckets |-> [i \in 1..(Len(ordered) - 1) |->
                                     [timeframe |-> ordered[i + 1], bucket |-> NewBucket]]])

\* the candles a sequence of update/finalize results returned
RECURSIVE Returned(_)
Returned(rs) ==
  IF rs = <<>> THEN <<>>
  ELSE (IF Head(rs).out = None THEN <<>> ELSE <<Val(Head(rs).out)>>) \o Returned(Tail(rs))

\* MultiTimeframeAggregator.add appending the base candle after the candles
\* of the buckets
add_BaseLast(a, candle) ==
  IF candle.timeframe # a.base_timeframe
  THEN [aggregator |-> a, out |-> <<>>, raised |-> TRUE]
  ELSE LET rs == [i \in 1..Len(a._buckets) |->
                    update(a._buckets[i].bucket, a._buckets[i].timeframe, candle)]
       IN [aggregator |-> [a EXCEPT !._buckets =
                             [i \in 1..Len(a._buckets) |-> [@[i] EXCEPT !.bucket = rs[i].bucket]]],
           out |-> Returned(rs) \o <<candle>>, raised |-> FALSE]

\* MultiTimeframeAggregator.add without the test of the candle's timeframe
add_Unchecked(a, candle) ==
  LET rs == [i \in 1..Len(a._buckets) |->
               update(a._buckets[i].bucket, a._buckets[i].timeframe, candle)]
  IN [aggregator |-> [a EXCEPT !._buckets =
                        [i \in 1..Len(a._buckets) |-> [@[i] EXCEPT !.bucket = rs[i].bucket]]],
      out |-> <<candle>> \o Returned(rs), raised |-> FALSE]

\* MultiTimeframeAggregator.add; raised: the ValueError for a candle of
\* another timeframe
add(a, candle) ==
  IF candle.timeframe # a.base_timeframe
  THEN [aggregator |-> a, out |-> <<>>, raised |-> TRUE]
  ELSE LET rs == [i \in 1..Len(a._buckets) |->
                    update(a._buckets[i].bucket, a._buckets[i].timeframe, candle)]
       IN [aggregator |-> [a EXCEPT !._buckets =
                             [i \in 1..Len(a._buckets) |-> [@[i] EXCEPT !.bucket = rs[i].bucket]]],
           out |-> <<candle>> \o Returned(rs), raised |-> FALSE]

\* MultiTimeframeAggregator.flush
flush(a) ==
  LET rs == [i \in 1..Len(a._buckets) |-> finalize(a._buckets[i].bucket, a._buckets[i].timeframe)]
  IN [aggregator |-> [a EXCEPT !._buckets =
                        [i \in 1..Len(a._buckets) |-> [@[i] EXCEPT !.bucket = rs[i].bucket]]],
      out |-> Returned(rs)]

\* inputs of the aggregator: labels (one of them unsupported), the
\* timestamps of a stream and its candles (rising, falling and flat bodies)
MaxAggBars == 3
AggLabels == {"1m", "5m", "1h", "7m"}
AggTimes == {3, 4, 5, 60}
AggPrices == 1..2
AggVolumes == 1..2
AggShapes ==
  {k \in [open : AggPrices, high : AggPrices, low : AggPrices, close : AggPrices, volume : AggVolumes] :
     k.low = Min(k.open, k.close) /\ k.high = Max(k.open, k.close)}

InitAgg ==
  /\ orders = <<>>
  /\ account = NewAccount(StartingEquity)
  /\ halted = FALSE
  /\ halt_reason = None
  /\ last_bias_direction = None
  /\ bias = None
  /\ trades = <<>>
  /\ halts = {}
  /\ clock = None
  /\ nbars = 0
  /\ pending = <<>>
  /\ ended = FALSE
  /\ bar = None
  /\ events = <<>>
  /\ writes = <<>>
  /\ gate = None
  /\ calc = None
  /\ \E base \in AggLabels, targets \in SUBSET AggLabels :
       agg = Some([base_timeframe |-> base, target_timeframes |-> targets,
                   aggregator |-> NewAggregator(base, targets),
                   stream |-> <<>>, seen |-> <<>>, last |-> None, added |-> 0, op |-> "new",
                   arg |-> None, out |-> <<>>, delivered |-> <<>>])

AggUnchanged ==
  UNCHANGED <<orders, account, halted, halt_reason, last_bias_direction, bias, trades, halts,
              clock, nbars, pending, ended, bar, events, writes, gate, calc>>

\* add(candle) with a candle of the base timeframe, later than the last one
AggAdd ==
  /\ agg # None /\ Val(agg).aggregator # None /\ Val(agg).added < MaxAggBars
  /\ \E k \in AggShapes, t \in AggTimes :
       LET g == Val(agg)
           candle == [timeframe |-> g.base_timeframe, timestamp |-> t, open |-> k.open,
                      high |-> k.high, low |-> k.low, close |-> k.close, volume |-> k.volume]
       IN /\ g.last # None => Val(g.last) < t
          /\ \E r \in {add(Val(g.aggregator), candle)} :
               agg' = Some([g EXCEPT !.aggregator = Some(r.aggregator),
                                     !.stream = @ \o <<candle>>,
                                     !.seen = g.stream \o <<candle>>,
                                     !.last = Some(t),
                                     !.added = @ + 1, !.op = "add",
                                     !.arg = Some(candle.timeframe), !.out = r.out,
                                     !.delivered = (IF g.stream = <<>> THEN <<>> ELSE @)
                                                   \o r.out])
  /\ AggUnchanged

\* add(candle) with a candle of another timeframe
AggAddOther ==
  /\ agg # None /\ Val(agg).aggregator # None /\ Val(agg).op # "add_raised"
  /\ \E tf \in AggLabels \ {Val(agg).base_timeframe}, t \in AggTimes :
       LET g == Val(agg)
           candle == [timeframe |-> tf, timestamp |-> t, open |-> 1, high |-> 2, low |-> 1,
                      close |-> 2, volume |-> 1]
       IN \E r \in {add(Val(g.aggregator), candle)} :
            agg' = Some([g EXCEPT !.aggregator = Some(r.aggregator),
                                  !.op = IF r.raised THEN "add_raised" ELSE "add",
                                  !.arg = Some(tf), !.out = r.out])
  /\ AggUnchanged

\* flush(): the end of a stream
AggFlush ==
  /\ agg # None /\ Val(agg).aggregator # None
  /\ \E r \in {flush(Val(Val(agg).aggregator))} :
       agg' = Some([Val(agg) EXCEPT !.aggregator = Some(r.aggregator), !.stream = <<>>,
                                    !.seen = Val(agg).stream, !.op = "flush", !.arg = None,
                                    !.out = r.out,
                                    !.delivered = (IF Val(agg).stream = <<>> THEN <<>> ELSE @)
                                                  \o r.out])
  /\ AggUnchanged

NextAgg == AggAdd \/ AggAddOther \/ AggFlush

SpecAgg == InitAgg /\ [][NextAgg]_vars

\* ------------------------------------------------- the life of one order
\* Fourth specification: one order placed at Tape[2], then a continuing
\* stream of 1m candles, one a minute, each handled by
\* TradingAgent.on_execution_close, and at most one bias flip handled by
\* Supervisor.handle_bias_snapshot.  No bias snapshot is in the store, so the
\* engine emits no further signal.  calc holds the order's direction and
\* entry (input) and the store, the timestamp of the last candle and whether
\* the bias has flipped (output).  The stream is followed for LifeSpan
\* minutes, beyond the expiry and the time stop of the order.
LifeSpan == expiry_minutes + time_stop_bars + 2
LifeInputs == [kind : {"life"}, direction : Directions, entry : {2, MaxPrice - 2}]
\* the candles of the stream lie between these levels: below, between and
\* above the entries, stops and targets of the orders
LifeLevels == {0, MaxPrice \div 2, MaxPrice}
LifeOrder == Val(Val(calc).output).st.orders[1]

InitLife ==
  /\ orders = <<>>
  /\ account = NewAccount(StartingEquity)
  /\ halted = FALSE
  /\ halt_reason = None
  /\ last_bias_direction = None
  /\ bias = None
  /\ trades = <<>>
  /\ halts = {}
  /\ clock = None
  /\ nbars = 0
  /\ pending = <<>>
  /\ ended = FALSE
  /\ bar = None
  /\ events = <<>>
  /\ writes = <<>>
  /\ gate = None
  /\ agg = None
  /\ calc \in {Some([input |-> i,
                     output |-> Some([st |-> PlacedStore(i.direction, i.entry), now |-> Tape[2],
                                      flipped |-> FALSE, evs |-> <<>>])]) : i \in LifeInputs}

\* the next 1m candle of the stream reaches on_execution_close
LifeBar ==
  /\ calc # None /\ Val(calc).input.kind = "life"
  /\ LET out == Val(Val(calc).output)
     IN /\ out.now < Tape[2] + LifeSpan
        /\ \E low \in LifeLevels, high \in LifeLevels :
             /\ low <= high
             /\ LET c == [timeframe |-> "1m", timestamp |-> out.now + 1, high |-> high,
                          low |-> low, close |-> high]
                IN \E r \in {on_execution_close([out.st EXCEPT !.writes = <<>>], None, None, c,
                                                None)} :
                     calc' = Some([input |-> Val(calc).input,
                                   output |-> Some([st |-> r.st, now |-> c.timestamp,
                                                    flipped |-> out.flipped, evs |-> r.evs])])
  /\ nbars' = nbars + 1
  /\ UNCHANGED <<orders, account, halted, halt_reason, last_bias_direction, bias, trades, halts,
                 clock, pending, ended, bar, events, writes, gate, agg>>

\* the bias turns against the order: on_bias_close hands the new direction
\* to Supervisor.handle_bias_snapshot and processes its events
LifeFlip ==
  /\ calc # None /\ Val(calc).input.kind = "life"
  /\ LET out == Val(Val(calc).output)
         direction == IF Val(calc).input.direction = LONG THEN SHORT ELSE LONG
     IN /\ ~out.flipped
        /\ \E last_price \in LifeLevels :
             \E evs \in {handle_bias_snapshot(out.st.orders, Some(Val(calc).input.direction),
                                              direction, out.now, last_price)} :
               calc' = Some([input |-> Val(calc).input,
                             output |-> Some([st |-> _process_events([out.st EXCEPT !.writes = <<>>],
                                                                     evs),
                                              now |-> out.now, flipped |-> TRUE, evs |-> evs])])
  /\ UNCHANGED <<orders, account, halted, halt_reason, last_bias_direction, bias, trades, halts,
                 clock, nbars, pending, ended, bar, events, writes, gate, agg>>

NextLife == LifeBar \/ LifeFlip

\* the arrival of a candle, seen from outside the handler: nbars counts the
\* candles of the stream, and only LifeBar advances it
LifeArrival ==
  /\ calc # None /\ Val(calc).input.kind = "life"
  /\ Val(Val(calc).output).now < Tape[2] + LifeSpan
  /\ nbars' = nbars + 1

\* the stream continues: a next candle always arrives
SpecLife == InitLife /\ [][NextLife]_vars /\ WF_nbars(LifeArrival)

\* --------------------------------------------------------------- properties
Terminal == {EXIT, CANCELLED}

C2_LifecycleOrder ==
  \A k \in 1..Len(writes) :
    LET w == writes[k] IN
    /\ w.to = FILLED => w.from = WAITING
    /\ w.to = MANAGING => w.from = FILLED
    /\ w.to = EXIT => w.from \in {FILLED, MANAGING}
    /\ w.from = WAITING => w.to \in {WAITING, FILLED, CANCELLED}


\* an order that was filled and taken under management leaves from MANAGING
C2_Witness ==
  \E i \in 1..Len(orders), k \in 1..Len(writes) :
    /\ writes[k] = [order_id |-> orders[i].order_id, from |-> MANAGING, to |-> EXIT]
    /\ orders[i].state = EXIT /\ orders[i].filled_price # None /\ BarsOf(orders[i]) >= 1

ClosingTypes == {"SL_HIT", "TP_HIT", "TIME_STOP", "CANCELLED"}
Sign(o) == IF o.direction = LONG THEN 1 ELSE -1
RiskCash(o) == Abs(o.entry - o.stop) * o.size * value_per_point
IsExecutionBar(b) == b # None /\ Val(b).timeframe \in {"1m", "5m"}
IsBiasBar(b) == b # None /\ Val(b).timeframe = "1h"

\* C3: every event that closes a filled order (SL_HIT, TP_HIT, TIME_STOP, the
\* bias-flip close) carries cash P&L = (exit price - fill price) x direction
\* sign x size x value-per-point and R = cash P&L / (|entry - stop| x size x
\* value-per-point); an SL_HIT of an order filled at its entry carries
\* -(|entry - stop| x size x value-per-point) and R = -1
C3_ClosingPnl ==
  [][\A k \in 1..Len(events') :
       LET e == events'[k]
           i == IndexOf(orders, e.order_id)
       IN (i # 0 /\ orders[i].state \in {FILLED, MANAGING} /\ e.event_type \in ClosingTypes)
          => LET o == orders[i]
                 cash == (Val(e.price) - FillPrice(o)) * Sign(o) * o.size * value_per_point
             IN /\ e.price # None /\ e.pnl = Some(cash)
                /\ e.pnl_r # None /\ Val(e.pnl_r).den # 0
                /\ Val(e.pnl_r).num * RiskCash(o) = cash * Val(e.pnl_r).den
                /\ (e.event_type = "SL_HIT" /\ FillPrice(o) = o.entry)
                   => (cash = -RiskCash(o) /\ Val(e.pnl_r).num = -Val(e.pnl_r).den)]_vars

\* a short order filled at its entry is stopped out with a loss of one R
C3_Witness ==
  \E k \in 1..Len(events), i \in 1..Len(orders) :
    /\ events[k].event_type = "SL_HIT" /\ events[k].order_id = orders[i].order_id
    /\ orders[i].direction = SHORT /\ orders[i].filled_price = Some(orders[i].entry)
    /\ events[k].pnl = Some(-RiskCash(orders[i]))

Touches(b, price) == b.low <= price /\ price <= b.high

\* C6: a FILLED or MANAGING order evaluated on a bar whose range touches both
\* its stop and its target exits with SL_HIT at the stop price, reason
\* "sl_hit", and gets no TP_HIT
C6_StopBeforeTarget ==
  [][IsExecutionBar(bar')
     => \A i \in 1..Len(orders) :
          LET o == orders[i] IN
          (o.state \in {FILLED, MANAGING} /\ Touches(Val(bar'), o.stop) /\ Touches(Val(bar'), o.target))
          => /\ \E k \in 1..Len(events') :
                  /\ events'[k].order_id = o.order_id /\ events'[k].event_type = "SL_HIT"
                  /\ events'[k].price = Some(o.stop) /\ events'[k].reason = Some("sl_hit")
             /\ \A k \in 1..Len(events') :
                  events'[k].order_id = o.order_id => events'[k].event_type # "TP_HIT"
             /\ \E k \in 1..Len(writes') :
                  /\ writes'[k].order_id = o.order_id /\ writes'[k].to = EXIT
                  /\ writes'[k].from = o.state]_vars

\* a short order has left on a bar that reached both its stop and its target
C6_Witness ==
  /\ IsExecutionBar(bar)
  /\ \E i \in 1..Len(orders), k \in 1..Len(events) :
       /\ orders[i].direction = SHORT /\ orders[i].state = EXIT
       /\ orders[i].exit_reason = Some("sl_hit") /\ orders[i].exit_price = Some(orders[i].stop)
       /\ events[k].order_id = orders[i].order_id /\ events[k].event_type = "SL_HIT"
       /\ Touches(Val(bar), orders[i].stop) /\ Touches(Val(bar), orders[i].target)

HasEvent(evs, id, type) ==
  \E k \in 1..Len(evs) : evs[k].order_id = id /\ evs[k].event_type = type
StopReached(o, c) == IF o.direction = LONG THEN c.low <= o.stop ELSE c.high >= o.stop
TargetReached(o, c) == IF o.direction = LONG THEN c.high >= o.target ELSE c.low <= o.target

\* C8: on an execution bar for which can_trade returns false no order is
\* placed, while every open order still gets its expiry, fill, stop, target
\* and time-stop processing
C8_GateBlocksPlacement ==
  [][(IsExecutionBar(bar') /\ gate' = Some(FALSE))
     => LET c == Val(bar') IN
        /\ \A k \in 1..Len(events') : events'[k].event_type # "PLACED"
        /\ Len(orders') = Len(orders)
        /\ \A i \in 1..Len(orders) :
             LET o == orders[i]
                 open == o.state \in {FILLED, MANAGING}
             IN /\ orders'[i].order_id = o.order_id /\ orders'[i].created_at = o.created_at
                /\ (o.state = WAITING /\ c.timestamp >= o.expires_at)
                   => (HasEvent(events', o.order_id, "EXPIRED") /\ orders'[i].state = CANCELLED)
                /\ (o.state = WAITING /\ c.timestamp < o.expires_at /\ Touches(c, o.entry))
                   => (HasEvent(events', o.order_id, "FILLED") /\ orders'[i].state \in {FILLED, MANAGING})
                /\ (open /\ StopReached(o, c))
                   => (HasEvent(events', o.order_id, "SL_HIT") /\ orders'[i].state = EXIT)
                /\ (open /\ ~StopReached(o, c) /\ TargetReached(o, c))
                   => (HasEvent(events', o.order_id, "TP_HIT") /\ orders'[i].state = EXIT)
                /\ (open /\ ~StopReached(o, c) /\ ~TargetReached(o, c)
                      /\ c.timeframe = "1m" /\ BarsOf(o) + 1 >= time_stop_bars)
                   => (HasEvent(events', o.order_id, "TIME_STOP") /\ orders'[i].state = EXIT)]_vars

\* a bar stops an order out while the supervisor is halted, and nothing is
\* placed
C8_Witness ==
  /\ IsExecutionBar(bar) /\ gate = Some(FALSE) /\ halted
  /\ \E k \in 1..Len(events) : events[k].event_type = "SL_HIT"
  /\ \A k \in 1..Len(events) : events[k].event_type # "PLACED"

IsFlip(last, b) == IsBiasBar(b) /\ last # None /\ Val(b).direction # Val(last)

\* C9: on a bias reversal every WAITING order opposing the new bias gets
\* exactly one CANCELLED event (reason bias_flip, no P&L) and ends CANCELLED,
\* every order aligned with the new bias keeps its record and gets no event;
\* the first snapshot and a repeated direction produce no event
C9_FlipCancelsWaiting ==
  [][IsBiasBar(bar')
     => IF IsFlip(last_bias_direction, bar')
        THEN /\ Len(orders') = Len(orders)
             /\ \A i \in 1..Len(orders) :
                  LET o == orders[i]
                      mine == {k \in 1..Len(events') : events'[k].order_id = o.order_id}
                  IN /\ (o.state = WAITING /\ o.direction # Val(bar').direction)
                        => /\ Cardinality(mine) = 1
                           /\ \A k \in mine : /\ events'[k].event_type = "CANCELLED"
                                               /\ events'[k].reason = Some("bias_flip")
                                               /\ events'[k].pnl = None /\ events'[k].pnl_r = None
                           /\ orders'[i] = [o EXCEPT !.state = CANCELLED, !.exit_reason = Some("bias_flip")]
                     /\ o.direction = Val(bar').direction => (orders'[i] = o /\ mine = {})
        ELSE events' = <<>> /\ orders' = orders /\ account' = account]_vars

\* a reversal has cancelled a WAITING order while the book holds an order of
\* the new direction
C9_Witness ==
  /\ IsBiasBar(bar) /\ Len(events) = 1
  /\ events[1].event_type = "CANCELLED" /\ events[1].pnl = None
  /\ \E i \in 1..Len(orders), j \in 1..Len(orders) :
       /\ orders[i].order_id = events[1].order_id /\ orders[i].state = CANCELLED
       /\ orders[i].exit_reason = Some("bias_flip") /\ orders[i].direction # Val(bar).direction
       /\ orders[j].direction = Val(bar).direction

RECURSIVE EventPnl(_)
EventPnl(evs) ==
  IF evs = <<>> THEN 0
  ELSE (IF Head(evs).pnl = None THEN 0 ELSE Val(Head(evs).pnl)) + EventPnl(Tail(evs))

\* the positions a reversal to `direction` closes
FlipClosed(os, direction) ==
  {i \in 1..Len(os) : os[i].state \in {FILLED, MANAGING} /\ os[i].direction # direction}

\* C7: once the supervisor has halted on the daily drawdown limit, every
\* can_trade call with a timestamp of that calendar day returns false; the
\* first can_trade call of a later calendar day zeroes daily P&L and
\* trades-today and lifts the daily halt
C7_DailyHaltHolds ==
  [][(IsExecutionBar(bar') /\ gate' # None)
     => /\ (\E h \in halts' : h.reason = DailyHalt /\ DayOf(h.at) = DayOf(Val(bar').timestamp))
           => gate' = Some(FALSE)
        /\ (account.last_daily_reset # None
              /\ DayOf(Val(bar').timestamp) > DayOf(Val(account.last_daily_reset)))
           => /\ account'.daily_pnl = 0 /\ account'.trades_today = 0
              /\ halted' => halt_reason' = Some(WeeklyHalt)]_vars

\* C10: on a bias reversal every FILLED or MANAGING order opposing the new
\* bias is closed at the bias bar's close with reason "bias_flip"; its P&L
\* goes to equity, daily and weekly P&L and the trade count, and the close
\* enters the trade statistics (closed trades, winners, total P&L)
C10_FlipCloseCounted ==
  [][IsFlip(last_bias_direction, bar')
     => LET b == Val(bar')
            closed == FlipClosed(orders, b.direction)
            total == EventPnl(events')
            before == summarize_trades(trades)
            after == summarize_trades(trades')
        IN /\ \A i \in closed :
                \E k \in 1..Len(events') :
                  /\ events'[k].order_id = orders[i].order_id
                  /\ events'[k].price = Some(b.close) /\ events'[k].reason = Some("bias_flip")
                  /\ events'[k].pnl = Some((b.close - FillPrice(orders[i])) * Sign(orders[i])
                                             * orders[i].size * value_per_point)
                  /\ orders'[i].state \in Terminal /\ orders'[i].exit_reason = Some("bias_flip")
           /\ account'.equity = account.equity + total
           /\ account'.daily_pnl = account.daily_pnl + total
           /\ account'.weekly_pnl = account.weekly_pnl + total
           /\ account'.trades_today = account.trades_today + Cardinality(closed)
           /\ after.closed_trades = before.closed_trades + Cardinality(closed)
           /\ after.total_pnl = before.total_pnl + total
           /\ after.winners = before.winners
                + Cardinality({k \in 1..Len(events') : events'[k].pnl # None /\ Val(events'[k].pnl) > 0})]_vars

Computed(kind) == calc # None /\ Val(calc).input.kind = kind /\ Val(calc).output # None

\* C4: a long order built from an emitted signal and filled at its entry has
\* R <= 0 when it closes at its stop (SL_HIT) and R >= rr_target when it
\* closes at its target (TP_HIT)
C4_LongExitR ==
  Computed("trade")
  => LET out == Val(Val(calc).output) IN
     (out.order # None /\ Val(out.order).direction = LONG
        /\ Val(out.order).filled_price = Some(Val(out.order).entry))
     => \A k \in 1..Len(out.events) :
          LET e == out.events[k] IN
          /\ e.event_type = "SL_HIT"
             => (Val(e.pnl_r).den > 0 /\ Val(e.pnl_r).num <= 0)
          /\ e.event_type = "TP_HIT"
             => (Val(e.pnl_r).den > 0 /\ Val(e.pnl_r).num >= rr_target * Val(e.pnl_r).den)

\* a long order entered in the middle of a fair-value gap is taken out at
\* its target
C4_Witness ==
  /\ Computed("trade")
  /\ Val(calc).input.direction = LONG /\ Val(Val(calc).input.pattern) # None
  /\ Val(Val(calc).output).order # None
  /\ Val(Val(Val(calc).output).order).state = FILLED
  /\ Len(Val(Val(calc).output).events) = 1
  /\ Val(Val(calc).output).events[1].event_type = "TP_HIT"
  /\ Val(Val(calc).output).events[1].price = Some(Val(Val(Val(calc).output).order).target)

\* C5: build_order_plan gives a plan of size floor(equity x risk fraction /
\* (|entry - stop| x value-per-point)) whenever that is >= 1 and no plan
\* whenever it is <= 0 or the stop distance is zero; equity 100,000 at 2%
\* with entry 2400 and stop 2395 gives size 400
C5_PlanSize ==
  Computed("size")
  => LET in == Val(calc).input
         plan == Val(Val(calc).output)
         dist == Abs(in.entry - in.stop)
         q == (in.equity * risk_per_trade_pct) \div (PctDen * dist * value_per_point)
     IN /\ dist = 0 => plan = None
        /\ (dist # 0 /\ q >= 1) => (plan # None /\ Val(plan).size = q)
        /\ (dist # 0 /\ q <= 0) => plan = None
        /\ in = SizingExample => (plan # None /\ Val(plan).size = 400)

\* the plan of a sizing whose quotient is not whole
C5_Witness ==
  /\ Computed("size")
  /\ Val(calc).input.equity = 150 /\ Abs(Val(calc).input.entry - Val(calc).input.stop) = 2
  /\ Val(Val(calc).output) # None /\ Val(Val(Val(calc).output)).size = 1

\* the base candles of a stream that fall in the period of `timeframe`
\* starting at `start`
PeriodBars(stream, timeframe, start) ==
  SelectSeq(stream, LAMBDA c : floor_time(c.timestamp, timeframe) = start)

RECURSIVE SumVolume(_)
SumVolume(cs) == IF cs = <<>> THEN 0 ELSE Head(cs).volume + SumVolume(Tail(cs))

\* add over a whole stream on a given aggregator: the aggregator after it
\* and what the last add returned
RECURSIVE Replay(_, _, _)
Replay(a, stream, out) ==
  IF stream = <<>> THEN [aggregator |-> a, out |-> out]
  ELSE Replay(add(a, Head(stream)).aggregator, Tail(stream), add(a, Head(stream)).out)

Built == agg # None /\ Val(agg).aggregator # None

\* C11: every higher-timeframe candle add or flush returns is stamped with
\* its period start and carries the open of the first, the highest high, the
\* lowest low, the close of the last and the summed volume of the stream's
\* base candles in that period; a fresh aggregator fed the same stream
\* returns the same candles
C11_AggregatedBars ==
  Built =>
    LET g == Val(agg)
        fresh == Replay(Val(NewAggregator(g.base_timeframe, g.target_timeframes)), g.seen, <<>>)
    IN /\ \A k \in 1..Len(g.out) :
            g.out[k].timeframe # g.base_timeframe =>
              LET b == g.out[k]
                  P == PeriodBars(g.seen, b.timeframe, b.timestamp)
              IN /\ P # <<>>
                 /\ b.timestamp = floor_time(P[1].timestamp, b.timeframe)
                 /\ b.open = P[1].open
                 /\ b.close = P[Len(P)].close
                 /\ \A i \in 1..Len(P) : b.high >= P[i].high /\ b.low <= P[i].low
                 /\ \E i \in 1..Len(P) : b.high = P[i].high
                 /\ \E i \in 1..Len(P) : b.low = P[i].low
                 /\ b.volume = SumVolume(P)
       /\ g.op = "add" => g.out = fresh.out
       /\ g.op = "flush" => g.out = flush(fresh.aggregator).out

\* an add that completes a 5m period of two base candles
C11_Witness ==
  /\ Built /\ Val(agg).op = "add"
  /\ \E k \in 1..Len(Val(agg).out) :
       LET b == Val(agg).out[k]
       IN /\ b.timeframe = "5m"
          /\ Len(PeriodBars(Val(agg).seen, "5m", b.timestamp)) = 2
          /\ b.open # b.close /\ b.volume = 3

\* C12: every zone StructureEngine writes has low <= high, and a signal is
\* emitted from the latest zone only when the zone's expiry is strictly after
\* the bar's timestamp
C12_ZoneActive ==
  /\ Computed("zone") => Val(Val(calc).output).low <= Val(Val(calc).output).high
  /\ (Computed("signal") /\ Val(Val(calc).output) # None)
     => Val(Val(Val(calc).input.zone).expires_at) > Val(calc).input.timestamp

\* the signals evaluate returned in the computation of calc
Emitted ==
  IF Computed("signal") /\ Val(Val(calc).output) # None THEN {Val(Val(Val(calc).output))}
  ELSE IF Computed("trade") /\ Val(Val(calc).output).signal # None
  THEN {Val(Val(Val(calc).output).signal)}
  ELSE {}

\* C13: every signal evaluate emits has |target - entry| / |entry - stop| >=
\* rr_target, and its rr field is that ratio
C13_SignalRR ==
  \A sg \in Emitted :
    LET reward == Abs(sg.target - sg.entry)
        risk == Abs(sg.entry - sg.stop)
    IN /\ risk > 0
       /\ reward >= rr_target * risk
       /\ sg.rr.den > 0
       /\ sg.rr.num * risk = reward * sg.rr.den

\* a signal whose target is the bias target, two and a half times the risk
\* away from the entry
C13_Witness ==
  \E sg \in Emitted :
    /\ Abs(sg.target - sg.entry) = 5 /\ Abs(sg.entry - sg.stop) = 2
    /\ Val(calc).input.kind = "trade" /\ Val(calc).input.bias_target = Some(sg.target)

\* the labels timeframe_to_minutes accepts
Supported ==
  {"1m", "3m", "5m", "15m", "30m", "45m", "1h", "2h", "3h", "4h", "6h", "8h", "12h", "1d"}

\* the base timeframe is the member of the target set with the least period
IsMinimumOf(base, targets) ==
  /\ base \in targets
  /\ \A tf \in targets : TIMEFRAME_MINUTES[base] <= TIMEFRAME_MINUTES[tf]

\* no aggregator comes out of a construction with an unsupported target label
\* or with a base that is not the least target
ConstructionFails ==
  agg # None =>
    LET g == Val(agg)
    IN ((\E tf \in g.target_timeframes : tf \notin Supported)
        \/ ~IsMinimumOf(g.base_timeframe, g.target_timeframes))
       => g.aggregator = None

\* add() with a candle of another timeframe raises and leaves every bucket
\* as it was
AddOfOtherFails ==
  (agg' # None /\ Val(agg').op \in {"add", "add_raised"}
     /\ Val(agg').arg # Some(Val(agg').base_timeframe))
  => /\ Val(agg').op = "add_raised"
     /\ Val(agg').out = <<>>
     /\ Val(agg').aggregator = Val(agg).aggregator

\* C14: constructing the aggregator fails, leaving no aggregator, whenever a
\* target label is outside the supported set or the base timeframe is not the
\* least-period member of the target set; and add() of a candle of a non-base
\* timeframe fails without changing any bucket
C14_FailFast == []ConstructionFails /\ [][AddOfOtherFails]_vars

\* add() has just raised for a candle of another timeframe while a bucket
\* holds candles of the stream
C14_Witness ==
  /\ agg # None /\ Val(agg).op = "add_raised"
  /\ Val(agg).arg # Some(Val(agg).base_timeframe)
  /\ \E i \in 1..Len(Val(Val(agg).aggregator)._buckets) :
       Val(Val(agg).aggregator)._buckets[i].bucket.start # None

\* a construction that failed on an unsupported label although the base is
\* the least of the supported targets
C14_WitnessConstruction ==
  /\ agg # None /\ Val(agg).aggregator = None
  /\ Val(agg).base_timeframe \in Val(agg).target_timeframes
  /\ \E tf \in Val(agg).target_timeframes : tf \notin Supported

\* flush(): one candle for each bucket that holds candles of the stream, none
\* for an empty one, every bucket empty afterwards
FlushReturns ==
  (agg' # None /\ Val(agg').op = "flush") =>
    LET before == Val(Val(agg).aggregator)._buckets
        after == Val(Val(agg').aggregator)._buckets
        out == Val(agg').out
    IN /\ \A i \in 1..Len(before) :
            /\ (before[i].bucket.start # None) <=> (Val(agg).stream # <<>>)
            /\ Cardinality({k \in 1..Len(out) : out[k].timeframe = before[i].timeframe})
                 = IF before[i].bucket.start # None THEN 1 ELSE 0
       /\ \A k \in 1..Len(out) : \E i \in 1..Len(before) : out[k].timeframe = before[i].timeframe
       /\ \A i \in 1..Len(after) : after[i].bucket.start = None
       /\ Val(agg).op = "flush" => out = <<>>

\* add() on emptied buckets: only the base candle is returned and every
\* bucket holds that candle alone
SeedsAfterFlush ==
  (agg' # None /\ Val(agg').op = "add" /\ Val(agg).stream = <<>>) =>
    LET after == Val(Val(agg').aggregator)._buckets
        c == Val(agg').stream[1]
    IN /\ Val(agg').out = <<c>>
       /\ \A i \in 1..Len(after) :
            LET b == after[i].bucket
            IN /\ b.start = Some(floor_time(c.timestamp, after[i].timeframe))
               /\ b.open = c.open /\ b.high = c.high /\ b.low = c.low
               /\ b.close = c.close /\ b.volume = c.volume

\* C17: flush returns exactly one candle for every higher timeframe whose
\* bucket holds at least one base candle and none for an empty bucket, and
\* leaves every bucket empty: a second flush returns nothing, and a base
\* candle added after a flush seeds new buckets without flushed data
C17_FlushOnce == [][FlushReturns /\ SeedsAfterFlush]_vars

\* the flush of a second stream: two higher timeframes, an earlier stream
\* already flushed, one candle added since, and a candle returned for each
\* timeframe carrying that one candle's volume
C17_Witness ==
  /\ Built /\ Val(agg).op = "flush"
  /\ Val(agg).added = 2 /\ Len(Val(agg).seen) = 1
  /\ Len(Val(agg).out) = 2
  /\ \A k \in 1..2 : Val(agg).out[k].volume = Val(agg).seen[1].volume

\* C15: an OrderEvent whose order id the book does not hold is processed
\* without an error and changes nothing: the orders, the account and the
\* supervisor's halt state after _process_events are those before it, also
\* when the event carries a P&L
C15_UnknownIgnored ==
  Computed("event") =>
    LET in == Val(calc).input
        before == Val(Val(calc).output).before
        after == Val(Val(calc).output).after
    IN IndexOf(before.orders, in.order_id) = 0
       => /\ after.orders = before.orders
          /\ after.account = before.account
          /\ after.halted = before.halted /\ after.halt_reason = before.halt_reason
          /\ after.halts = before.halts

\* a stop-loss event for an unknown id, with a loss that would reach the daily
\* limit, processed while the book holds an open order
C15_Witness ==
  /\ Computed("event")
  /\ Val(calc).input.event_type = "SL_HIT" /\ Val(calc).input.state = MANAGING
  /\ Val(calc).input.pnl # None /\ DailyLimit(apply_trade_result(account, Val(Val(calc).input.pnl)))
  /\ IndexOf(Val(Val(calc).output).before.orders, Val(calc).input.order_id) = 0
  /\ Val(Val(calc).output).after.orders[1].state = MANAGING

\* the events of a handler for one order id
EventsOf(evs, id) == SelectSeq(evs, LAMBDA e : e.order_id = id)

\* C19: a WAITING order evaluated on a candle stamped later than its expiry
\* gets an EXPIRED event with reason "expiry" and is not filled on that
\* candle, also when the candle's range contains the entry
C19_ExpiryBeforeFill ==
  Computed("bar") =>
    LET out == Val(Val(calc).output)
        o == out.before.orders[1]
        evs == EventsOf(out.result.evs, o.order_id)
    IN (o.state = WAITING /\ out.candle.timestamp > o.expires_at)
       => /\ Len(evs) = 1
          /\ evs[1].event_type = "EXPIRED" /\ evs[1].reason = Some("expiry")
          /\ out.result.st.orders[1].state = CANCELLED
          /\ out.result.st.orders[1].exit_reason = Some("expiry")
          /\ out.result.st.orders[1].filled_price = None

\* an order expired on a candle whose range contains its entry
C19_Witness ==
  /\ Computed("bar")
  /\ Val(Val(calc).output).candle.timestamp > Val(Val(calc).output).before.orders[1].expires_at
  /\ Touches(Val(Val(calc).output).candle, Val(Val(calc).output).before.orders[1].entry)
  /\ HasEvent(Val(Val(calc).output).result.evs, Val(Val(calc).output).before.orders[1].order_id,
              "EXPIRED")

\* C20: a WAITING order whose expiry has not passed gets a FILLED event on a
\* candle if and only if low <= entry <= high; the order then records its
\* entry as the fill price and is not tested against stop or target on that
\* candle
C20_FillIffCrossed ==
  Computed("bar") =>
    LET out == Val(Val(calc).output)
        o == out.before.orders[1]
        c == out.candle
        evs == out.result.evs
    IN (o.state = WAITING /\ ~(c.timestamp > o.expires_at))
       => /\ HasEvent(evs, o.order_id, "FILLED") <=> (c.low <= o.entry /\ o.entry <= c.high)
          /\ HasEvent(evs, o.order_id, "FILLED")
              => /\ out.result.st.orders[1].filled_price = Some(o.entry)
                 /\ ~HasEvent(evs, o.order_id, "SL_HIT") /\ ~HasEvent(evs, o.order_id, "TP_HIT")

\* the PLACED events of a handler: its placements
Placements(evs) == Cardinality({k \in 1..Len(evs) : evs[k].event_type = "PLACED"})

\* C16: every order placed stays in the book with its own record: a handler
\* leaves each earlier order in its place with its id and its plan, and the
\* book grows by one order for each placement
C16_OrdersKept ==
  [][/\ Len(orders') = Len(orders) + Placements(events')
     /\ \A i \in 1..Len(orders) :
          /\ i <= Len(orders')
          /\ orders'[i].order_id = orders[i].order_id
          /\ orders'[i].direction = orders[i].direction
          /\ orders'[i].entry = orders[i].entry /\ orders'[i].stop = orders[i].stop
          /\ orders'[i].target = orders[i].target /\ orders'[i].size = orders[i].size]_vars

\* the closing events of a handler whose P&L went into the account
Realized(evs) ==
  {k \in 1..Len(evs) : evs[k].pnl # None /\ evs[k].event_type \in ClosingTypes}

\* within a handler every account update follows the write of a terminal
\* state for the same order, and the book holds that state at the update
WrittenBeforeApplied ==
  \A k \in 1..Len(writes) :
    writes[k].to = "account"
    => /\ writes[k].from \in Terminal
       /\ \E j \in 1..(k - 1) :
            writes[j].order_id = writes[k].order_id /\ writes[j].to \in Terminal

\* C18: the new state of an order is written to the book before the account
\* is updated for the event, and in every state in which the account
\* reflects the P&L of an event the record of the event's order is terminal
C18_RecordedBeforeApplied ==
  /\ WrittenBeforeApplied
  /\ \A k \in Realized(events) : StateOf(orders, events[k].order_id) \in Terminal

\* C21: an order filled on an execution candle is FILLED with bars_in_trade 0
\* when the handler of that candle returns; an order that is FILLED when an
\* execution candle arrives is moved to MANAGING by that candle, and that
\* candle tests it against neither stop nor target
C21_FilledUntilNextBar ==
  [][IsExecutionBar(bar')
     => \A i \in 1..Len(orders) :
          LET o == orders[i] IN
          /\ (o.state = WAITING /\ HasEvent(events', o.order_id, "FILLED"))
             => (orders'[i].state = FILLED /\ orders'[i].bars_in_trade = Some(0))
          /\ o.state = FILLED
             => /\ \E k \in 1..Len(writes') :
                     writes'[k] = [order_id |-> o.order_id, from |-> FILLED, to |-> MANAGING]
                /\ ~HasEvent(events', o.order_id, "SL_HIT")
                /\ ~HasEvent(events', o.order_id, "TP_HIT")]_vars

\* C22: an open order whose stop and target the candle does not touch is
\* counted once by every 1m candle and by no other candle; on the candle on
\* which bars_in_trade reaches time_stop_bars it gets exactly one TIME_STOP
\* event (reason "time_stop", price = the candle's close) and ends EXIT at
\* that close, before that it gets no event; no open order has been counted
\* time_stop_bars times
C22_TimeStop ==
  [][IsExecutionBar(bar')
     => /\ \A i \in 1..Len(orders) :
             LET o == orders[i]
                 c == Val(bar')
                 mine == EventsOf(events', o.order_id)
             IN (o.state \in {FILLED, MANAGING} /\ ~StopReached(o, c) /\ ~TargetReached(o, c))
                => IF c.timeframe # "1m" THEN mine = <<>> /\ orders'[i] = o
                   ELSE IF BarsOf(o) + 1 = time_stop_bars
                   THEN /\ Len(mine) = 1
                        /\ mine[1].event_type = "TIME_STOP" /\ mine[1].reason = Some("time_stop")
                        /\ mine[1].price = Some(c.close)
                        /\ orders'[i].state = EXIT /\ orders'[i].exit_price = Some(c.close)
                        /\ orders'[i].exit_reason = Some("time_stop")
                        /\ BarsOf(orders'[i]) = time_stop_bars
                   ELSE /\ mine = <<>>
                        /\ orders'[i].state = MANAGING
                        /\ BarsOf(orders'[i]) = BarsOf(o) + 1
        /\ \A i \in 1..Len(orders') :
             orders'[i].state \in {FILLED, MANAGING} => BarsOf(orders'[i]) < time_stop_bars]_vars

\* an order has been closed by its time stop on a candle that touched neither
\* its stop nor its target
C22_Witness ==
  /\ IsExecutionBar(bar)
  /\ \E i \in 1..Len(orders) :
       /\ orders[i].state = EXIT /\ orders[i].exit_reason = Some("time_stop")
       /\ HasEvent(events, orders[i].order_id, "TIME_STOP")
       /\ ~StopReached(orders[i], Val(bar)) /\ ~TargetReached(orders[i], Val(bar))
       /\ orders[i].exit_price = Some(Val(bar).close)

\* C23: the time stop has priority over stop-loss and take-profit: a MANAGING
\* order whose bars_in_trade reaches time_stop_bars on a 1m candle that also
\* reaches its stop or its target exits with TIME_STOP at the candle's close,
\* not with SL_HIT or TP_HIT
C23_TimeStopFirst ==
  [][(IsExecutionBar(bar') /\ Val(bar').timeframe = "1m")
     => \A i \in 1..Len(orders) :
          LET o == orders[i]
              c == Val(bar')
          IN (o.state = MANAGING /\ BarsOf(o) + 1 >= time_stop_bars
                /\ (StopReached(o, c) \/ TargetReached(o, c)))
             => /\ HasEvent(events', o.order_id, "TIME_STOP")
                /\ ~HasEvent(events', o.order_id, "SL_HIT")
                /\ ~HasEvent(events', o.order_id, "TP_HIT")
                /\ orders'[i].exit_reason = Some("time_stop")
                /\ orders'[i].exit_price = Some(c.close)]_vars

\* C24: the order lifecycle is evaluated on 1m candles only: an execution
\* candle of another timeframe emits no EXPIRED, FILLED, SL_HIT, TP_HIT or
\* TIME_STOP event and leaves the state and the bars_in_trade of every order
\* as they were
C24_PrimaryOnly ==
  [][(IsExecutionBar(bar') /\ Val(bar').timeframe # "1m")
     => /\ \A k \in 1..Len(events') :
             events'[k].event_type \notin {"EXPIRED", "FILLED", "SL_HIT", "TP_HIT", "TIME_STOP"}
        /\ \A i \in 1..Len(orders) :
             /\ orders'[i].state = orders[i].state
             /\ orders'[i].bars_in_trade = orders[i].bars_in_trade]_vars

\* the writes of a handler that change the lifecycle state of an order (its
\* creation included)
StateChanges(ws, id) ==
  {k \in 1..Len(ws) : ws[k].order_id = id /\ ws[k].to # "account" /\ ws[k].from # ws[k].to}

\* C25: in every handler each change of an order's lifecycle state comes with
\* exactly one OrderEvent for that order and no event comes without a change:
\* per order, the state changes written and the events emitted are equal in
\* number
C25_OneEventPerChange ==
  \A id \in {writes[k].order_id : k \in 1..Len(writes)} \cup {events[k].order_id : k \in 1..Len(events)} :
    Cardinality(StateChanges(writes, id)) = Len(EventsOf(events, id))

\* C26: after a handler has processed a closing or cancelling event the
\* record of the event's order agrees with it: the state is terminal,
\* exit_reason is the event's reason and exit_price is the event's price
\* whenever the event carries one
C26_RecordAgrees ==
  \A k \in 1..Len(events) :
    events[k].event_type \in ClosingTypes \cup {"EXPIRED"}
    => LET i == IndexOf(orders, events[k].order_id)
       IN /\ i # 0
          /\ orders[i].state \in Terminal
          /\ orders[i].exit_reason = events[k].reason
          /\ events[k].price # None => orders[i].exit_price = events[k].price

\* what the calendar leaves of a gate input's figures: nothing of the day's
\* figures and of the halt on another day than the last daily reset, nothing
\* of the week's P&L in another week than the last weekly reset
NewDay(in) == in.daily_age = None \/ DayOf(in.now - Val(in.daily_age)) # DayOf(in.now)
NewWeek(in) == in.weekly_age = None \/ IsoWeek(in.now - Val(in.weekly_age)) # IsoWeek(in.now)
HaltedAtCheck(in) == in.halted /\ ~NewDay(in)
NewsAt(now) == \E e \in NewsEvents : now - e \in (-news_halt_minutes)..news_halt_minutes
SessionAt(now) == \E s \in Sessions : MinuteOfDay(now) \in s.start..s.end
TradesOver(in) == ~NewDay(in) /\ in.trades_today >= max_trades_per_day
DailyOver(in) == ~NewDay(in) /\ -in.daily_pnl * PctDen >= StartingEquity * max_daily_drawdown_pct
WeeklyOver(in) == ~NewWeek(in) /\ -in.weekly_pnl * PctDen >= StartingEquity * max_weekly_drawdown_pct

\* C27: can_trade tests news blackout, session, trade count, daily and weekly
\* drawdown in that order: inside a blackout or outside every session it
\* returns false and leaves halted and halt_reason as the calendar reset
\* left them, whatever the limits; it halts only when news and session pass
\* and a limit is exceeded, with the reason of the first limit exceeded; it
\* returns true exactly when not halted and all five tests pass
C27_GateOrder ==
  Computed("gate") =>
    LET in == Val(calc).input
        out == Val(Val(calc).output).gate
        limit == TradesOver(in) \/ DailyOver(in) \/ WeeklyOver(in)
    IN /\ (NewsAt(in.now) \/ ~SessionAt(in.now))
          => /\ ~out.ok
             /\ out.st.halted = HaltedAtCheck(in)
             /\ out.st.halt_reason = IF HaltedAtCheck(in) THEN Some(DailyHalt) ELSE None
       /\ (out.st.halted /\ ~HaltedAtCheck(in))
          <=> (~HaltedAtCheck(in) /\ ~NewsAt(in.now) /\ SessionAt(in.now) /\ limit)
       /\ (out.st.halted /\ ~HaltedAtCheck(in))
          => /\ ~out.ok
             /\ out.st.halt_reason =
                  IF TradesOver(in) THEN Some(TradesHalt)
                  ELSE IF DailyOver(in) THEN Some(DailyHalt) ELSE Some(WeeklyHalt)
       /\ out.ok <=> (~HaltedAtCheck(in) /\ ~NewsAt(in.now) /\ SessionAt(in.now) /\ ~limit)

\* a call inside the news blackout and inside a session, with the trade count
\* and the daily loss at their limits on the day of the last reset: false,
\* and not halted
C27_Witness ==
  /\ Computed("gate")
  /\ NewsAt(Val(calc).input.now) /\ SessionAt(Val(calc).input.now)
  /\ ~Val(calc).input.halted
  /\ TradesOver(Val(calc).input) /\ DailyOver(Val(calc).input)
  /\ ~Val(Val(calc).output).gate.ok /\ ~Val(Val(calc).output).gate.st.halted

OfTimeframe(cs, timeframe) == SelectSeq(cs, LAMBDA c : c.timeframe = timeframe)

\* add() returns a candle of a higher timeframe exactly when the bucket holds
\* a period and the base candle's floored period differs from it; the candle
\* returned is stamped with the period the bucket held
EmitsOnAdvance ==
  (agg' # None /\ Val(agg').op = "add")
  => LET before == Val(Val(agg).aggregator)._buckets
         c == Val(agg').out[1]
     IN \A i \in 1..Len(before) :
          LET got == OfTimeframe(Val(agg').out, before[i].timeframe)
              held == before[i].bucket.start
          IN IF held # None /\ held # Some(floor_time(c.timestamp, before[i].timeframe))
             THEN Len(got) = 1 /\ got[1].timestamp = Val(held)
             ELSE got = <<>>

\* after the flush that ends a stream: for each higher timeframe the candles
\* returned over the stream are one for each period that received a base
\* candle, and their volumes add up to the volume of the stream
EmittedOnce ==
  (agg # None /\ Built /\ Val(agg).op = "flush")
  => LET g == Val(agg)
         a == Val(g.aggregator)
     IN \A i \in 1..Len(a._buckets) :
          LET tf == a._buckets[i].timeframe
              got == OfTimeframe(g.delivered, tf)
              periods == {floor_time(g.seen[k].timestamp, tf) : k \in 1..Len(g.seen)}
          IN /\ Len(got) = Cardinality(periods)
             /\ \A p \in periods : Cardinality({k \in 1..Len(got) : got[k].timestamp = p}) = 1
             /\ SumVolume(got) = SumVolume(g.seen)
             /\ \A k \in 1..Len(got) :
                  got[k].volume = SumVolume(PeriodBars(g.seen, tf, got[k].timestamp))

\* C29: for each higher timeframe add emits a candle only when the base
\* candle's floored period differs from the bucket's period, and nothing
\* while the base candles stay in one period; over a stream followed by
\* flush every period that received a base candle is emitted exactly once
\* and every base candle is counted in exactly one emitted candle
C29_EmitPerPeriod == []EmittedOnce /\ [][EmitsOnAdvance]_vars

\* a flushed stream of three base candles over two 5m periods: two 5m
\* candles, the first returned by add and the second by flush
C29_Witness ==
  /\ Built /\ Val(agg).op = "flush" /\ Len(Val(agg).seen) = 3
  /\ Len(OfTimeframe(Val(agg).delivered, "5m")) = 2
  /\ Len(OfTimeframe(Val(agg).out, "5m")) = 1
  /\ OfTimeframe(Val(agg).delivered, "5m")[1].volume
       = Val(agg).seen[1].volume + Val(agg).seen[2].volume

\* a sequence of candles in non-decreasing timestamp order
InTimeOrder(cs) == \A i, j \in 1..Len(cs) : i < j => cs[i].timestamp <= cs[j].timestamp

\* add() returns the base candle first, then the candles of the buckets the
\* base candle completed, in increasing period length
BaseThenLonger ==
  (agg' # None /\ Val(agg').op = "add")
  => LET before == Val(Val(agg).aggregator)._buckets
         out == Val(agg').out
         c == Val(agg').stream[Len(Val(agg').stream)]
     IN /\ out # <<>> /\ out[1] = c /\ c.timeframe = Val(agg').base_timeframe
        /\ \A i \in 2..Len(out) :
             Val(timeframe_to_minutes(c.timeframe)) < Val(timeframe_to_minutes(out[i].timeframe))
        /\ \A i, j \in 2..Len(out) :
             i < j => Val(timeframe_to_minutes(out[i].timeframe))
                        < Val(timeframe_to_minutes(out[j].timeframe))
        /\ {out[i].timeframe : i \in 2..Len(out)}
             = {before[i].timeframe : i \in
                  {n \in 1..Len(before) :
                     /\ before[n].bucket.start # None
                     /\ before[n].bucket.start
                          # Some(floor_time(c.timestamp, before[n].timeframe))}}

\* the candles handed on over a stream are the candles of its calls in the
\* order returned, and those of any one timeframe are in timestamp order
DeliveredInOrder ==
  (agg # None /\ Built /\ Val(agg).op \in {"add", "flush"})
  => LET g == Val(agg)
         n == Len(g.delivered) - Len(g.out)
     IN /\ n >= 0 /\ SubSeq(g.delivered, n + 1, Len(g.delivered)) = g.out
        /\ OfTimeframe(g.delivered, g.base_timeframe) = g.seen
        /\ \A tf \in g.target_timeframes : InTimeOrder(OfTimeframe(g.delivered, tf))

\* C30: for one base candle add returns the base candle and every
\* higher-timeframe candle it completed, the base first and the others by
\* increasing period length, and they are handed on in that order, so the
\* candles of any one timeframe arrive in non-decreasing timestamp order when
\* the base stream is ordered
C30_OrderedDelivery == []DeliveredInOrder /\ [][BaseThenLonger]_vars

\* a base candle that completes a 5m and a 1h period at once, after earlier
\* 5m candles of the same stream
C30_Witness ==
  /\ Built /\ Val(agg).op = "add" /\ Len(Val(agg).out) = 3
  /\ Val(agg).out[1].timeframe = "1m"
  /\ Val(agg).out[2].timeframe = "5m"
  /\ Val(agg).out[3].timeframe = "1h"
  /\ Len(OfTimeframe(Val(agg).delivered, "5m")) = 2

\* the prerequisites of a signal on the bar of a "signal" input: enough
\* candles buffered, a bias, a latest zone whose expiry is not before the
\* bar, of the direction of the bias and containing the close
Prerequisites(in, needed) ==
  /\ in.buffered >= needed
  /\ in.bias # None
  /\ in.zone # None
  /\ Val(in.zone).expires_at # None => Val(Val(in.zone).expires_at) >= in.timestamp
  /\ Val(in.zone).direction = Val(in.bias).bias
  /\ contains(Val(in.zone), in.close)

\* C31: ExecutionEngine.evaluate emits no signal on a bar unless at least 15
\* candles are buffered, a bias snapshot exists, the latest zone exists and
\* is not expired, its direction is that of the bias and it contains the
\* close of the bar
C31_Prerequisites ==
  (calc # None /\ Val(calc).input.kind = "signal" /\ Val(calc).output # None
     /\ Val(Val(calc).output) # None)
  => Prerequisites(Val(calc).input, 15)

\* the 62%-79% retracement band of a dealing range for a direction, in
\* hundredths of a tick: measured up from the low for long, down from the
\* high for short
RetracementBand(high, low, direction) ==
  LET a == IF direction = LONG THEN low * PctDen + (high - low) * 62
                               ELSE high * PctDen - (high - low) * 62
      b == IF direction = LONG THEN low * PctDen + (high - low) * 79
                               ELSE high * PctDen - (high - low) * 79
  IN [low |-> Min(a, b), high |-> Max(a, b)]

\* the zone written for a "zone" input holds the band of the input's
\* dealing range
ZoneHoldsBand ==
  LET in == Val(calc).input
      zone == Val(Val(calc).output)
      band == RetracementBand(ZoneRange(in).high, ZoneRange(in).low, zone.direction)
  IN zone.low <= band.low /\ band.high <= zone.high

\* the zone written for a "zone" input holds the gap detected, if any
ZoneHoldsGap ==
  LET in == Val(calc).input
      zone == Val(Val(calc).output)
  IN ZoneGap(in) # None
     => zone.low <= Val(ZoneGap(in)).low * PctDen /\ Val(ZoneGap(in)).high * PctDen <= zone.high

RECURSIVE EventsPnl(_)
EventsPnl(evs) ==
  IF evs = <<>> THEN 0
  ELSE (IF Head(evs).pnl = None THEN 0 ELSE Val(Head(evs).pnl)) + EventsPnl(Tail(evs))

\* the events of a handler that carry a P&L
WithPnl(evs) == SelectSeq(evs, LAMBDA e : e.pnl # None)

\* PLACED, FILLED and EXPIRED events, and the CANCELLED event of an order
\* that was WAITING, carry no P&L
NoPnlWithoutClose ==
  \A k \in 1..Len(events') :
    LET e == events'[k]
    IN \/ e.event_type \in {"PLACED", "FILLED", "EXPIRED"}
       \/ (e.event_type = "CANCELLED" /\ StateOf(orders, e.order_id) = WAITING)
       => e.pnl = None

\* one handler changes the account by the P&L of the closes it processed and
\* by the calendar resets of its can_trade, and by nothing else
AccountFrame ==
  LET closes == WithPnl(events')
  IN /\ account'.equity = account.equity + EventsPnl(closes)
     /\ account'.closed_pnl = account.closed_pnl + EventsPnl(closes)
     /\ account'.starting_equity = account.starting_equity
     /\ IF account'.last_daily_reset = account.last_daily_reset
        THEN /\ account'.daily_pnl = account.daily_pnl + EventsPnl(closes)
             /\ account'.trades_today = account.trades_today + Len(closes)
        ELSE /\ gate' # None /\ account'.daily_pnl = 0 /\ account'.trades_today = 0
     /\ IF account'.last_weekly_reset = account.last_weekly_reset
        THEN account'.weekly_pnl = account.weekly_pnl + EventsPnl(closes)
        ELSE gate' # None /\ account'.weekly_pnl = 0
     /\ closes = <<>>
        => /\ account'.max_equity = account.max_equity
           /\ account'.min_equity = account.min_equity
           /\ account'.max_drawdown = account.max_drawdown
     /\ Len(closes) = 1
        => /\ account'.max_equity = Max(account.max_equity, account'.equity)
           /\ account'.min_equity = Min(account.min_equity, account'.equity)
           /\ account'.max_drawdown
                = Max(account.max_drawdown, account'.max_equity - account'.equity)

\* C33: the account changes only through the P&L of a closed trade or a
\* calendar reset: PLACED, FILLED and EXPIRED events and the CANCELLED event
\* of a WAITING order leave it unchanged, and each close carrying a P&L adds
\* one to trades_today and its P&L to equity, daily and weekly P&L
C33_AccountFrame == [][NoPnlWithoutClose /\ AccountFrame]_vars

\* a handler that expired or cancelled a WAITING order without touching the
\* account, after an earlier close had changed it
C33_Witness ==
  /\ \E k \in 1..Len(events) : events[k].event_type \in {"EXPIRED", "CANCELLED"}
                                /\ events[k].pnl = None
  /\ account.closed_pnl # 0 /\ account.trades_today >= 1

\* the orders of the book that hold a position
OpenPositions == {i \in 1..Len(orders) : orders[i].state \in {FILLED, MANAGING}}

\* C34: in every reachable state at most max_concurrent_positions orders are
\* FILLED or MANAGING at once
C34_PositionLimit == Cardinality(OpenPositions) <= max_concurrent_positions

\* the orders of a book placed on the calendar day of a timestamp
PlacedOn(os, now) == {i \in 1..Len(os) : DayOf(os[i].created_at) = DayOf(now)}

\* C35: on one calendar day at most max_trades_per_day orders are placed:
\* once that many have been placed no further order is placed that day,
\* whether or not the earlier ones have closed
C35_DailyPlacements ==
  Computed("place") =>
    LET out == Val(Val(calc).output)
    IN Cardinality(PlacedOn(out.before.orders, out.candle.timestamp)) >= max_trades_per_day
       => Placements(out.result.evs) = 0

\* the realized loss of the week of a "place" input is at or beyond the
\* weekly limit
WeekBreached(in) == -in.weekly_pnl * PctDen >= StartingEquity * max_weekly_drawdown_pct

C36_WitnessBar ==
  /\ Computed("place") /\ WeekBreached(Val(calc).input)
  /\ Val(calc).input.pattern # None /\ Val(calc).input.trades_today = 0
  /\ Val(calc).input.placed = 0
  /\ Val(Val(calc).output).result.st.halt_reason = Some(WeeklyHalt)

\* the handler of the first 1m candle of a calendar day: can_trade is
\* consulted for a day later than the day of the last daily reset
FirstCheckOfDay ==
  /\ gate' # None /\ bar' # None /\ Val(bar').timeframe = "1m"
  /\ account.last_daily_reset # None
  /\ DayOf(Val(account.last_daily_reset)) < DayOf(Val(bar').timestamp)

\* C37: at every can_trade check daily_pnl and trades_today are the sum and
\* the count of the trades closed on the calendar day of the check: a trade
\* closed while the first execution candle of a new day is processed is
\* counted in the new day's figures
C37_DayTotals ==
  [][FirstCheckOfDay
     => /\ \A k \in 1..Len(events') : DayOf(events'[k].timestamp) = DayOf(Val(bar').timestamp)
        /\ account'.trades_today = Len(WithPnl(events'))
        /\ account'.daily_pnl = EventsPnl(WithPnl(events'))]_vars

\* equity, closed P&L and drawdown agree in every state
AccountAgrees ==
  /\ account.equity - account.starting_equity = account.closed_pnl
  /\ account.starting_equity = StartingEquity
  /\ account.max_drawdown >= account.max_equity - account.equity

\* a handler realizes the P&L of each order at most once: the events that
\* carry a P&L are for different orders, each of them held a position when
\* the handler began and is written to a terminal state once, and closed P&L
\* grows by their sum
RealizedOnce ==
  LET closes == WithPnl(events')
  IN /\ \A j, k \in 1..Len(closes) : j # k => closes[j].order_id # closes[k].order_id
     /\ \A k \in 1..Len(closes) :
          /\ closes[k].event_type \in ClosingTypes
          /\ StateOf(orders, closes[k].order_id) \in {FILLED, MANAGING}
          /\ Cardinality({w \in 1..Len(writes') :
                            /\ writes'[w].order_id = closes[k].order_id
                            /\ writes'[w].to \in Terminal}) = 1
     /\ account'.closed_pnl = account.closed_pnl + EventsPnl(closes)

\* C38: in every reachable state equity - starting equity = closed P&L = the
\* sum of the P&L of the closing events processed so far, each order
\* realizing a P&L at most once, and max drawdown >= max equity - equity
C38_EquityIsClosedPnl == []AccountAgrees /\ [][RealizedOnce]_vars

\* an order stopped out on the candle on which its time stop also falls due:
\* one closing event, and an account below its starting equity
C38_Witness ==
  /\ bar # None /\ Val(bar).timeframe = "1m"
  /\ Len(WithPnl(events)) = 1 /\ events[1].event_type = "SL_HIT"
  /\ \E i \in 1..Len(orders) :
       /\ orders[i].order_id = events[1].order_id
       /\ orders[i].state = EXIT /\ orders[i].bars_in_trade = Some(time_stop_bars - 1)
  /\ account.closed_pnl < 0 /\ account.max_drawdown = -account.closed_pnl

\* after a candle at or after its expiry the order is no longer WAITING, and
\* an order holding a position has been counted fewer than time_stop_bars
\* candles, the candle of its fill included
LifeBounded ==
  LET out == Val(Val(calc).output)
  IN /\ (LifeOrder.state = WAITING /\ out.now > LifeOrder.created_at)
        => out.now < LifeOrder.expires_at
     /\ LifeOrder.state = FILLED => BarsOf(LifeOrder) = 0
     /\ LifeOrder.state = MANAGING
        => BarsOf(LifeOrder) >= 1 /\ BarsOf(LifeOrder) < time_stop_bars

\* every 1m candle counts for an order holding a position
LifeCounts ==
  LET before == Val(Val(calc).output).st.orders[1]
      after == Val(Val(calc').output).st.orders[1]
  IN (Val(Val(calc').output).now # Val(Val(calc).output).now
        /\ before.state \in {FILLED, MANAGING} /\ after.state \notin Terminal)
     => BarsOf(after) = BarsOf(before) + 1

\* C39: under a continuing stream of 1m candles every placed order reaches
\* EXIT or CANCELLED: a WAITING order is filled, cancelled or expired by the
\* first candle at or after its expiry, and a filled order is closed by stop,
\* target, bias flip or time stop within time_stop_bars candles
C39_OrderEnds ==
  /\ []LifeBounded
  /\ [][LifeCounts]_vars
  /\ <>(LifeOrder.state \in Terminal)

\* an order filled by the last candle before its expiry and closed by the
\* time stop
C39_Witness ==
  /\ LifeOrder.state = EXIT /\ LifeOrder.exit_reason = Some("time_stop")
  /\ Val(Val(calc).output).now = LifeOrder.expires_at - 1 + time_stop_bars - 1

====
